---------------------------- MODULE Spec2Model ----------------------------
(***************************************************************************)
(* A model of main/ry835ai.go (Stratux): the NMEA/UBX sentence codec, the  *)
(* sentence parser processNMEALine and the situation record it maintains,  *)
(* the constellation tracker, the validity predicates and the periodic     *)
(* loops (serial reader, attitude loop, environmental loop, supervisor).   *)
(*                                                                         *)
(* Conventions.                                                            *)
(*  - Text is text: an NMEA line is a TLA+ string and is taken apart with  *)
(*    Len, SubSeq and \o exactly where the Go code indexes and slices.     *)
(*  - Floating point values are fixed point integers in thousandths        *)
(*    (Milli): 4.2 m is 4200.  Integer widths are kept (% 2^w).            *)
(*  - Times of the monotonic clock (stratuxClock.Time) are whole seconds;  *)
(*    the zero time.Time is 0 and the clock starts there.                  *)
(***************************************************************************)
EXTENDS Integers, Sequences, FiniteSets, TLC

(***************************************************************************)
(* Bounds of the model.                                                    *)
(***************************************************************************)
\* lines the serial scanner delivers in one behaviour
MaxLines == 2
\* last value of the monotonic clock, in seconds
MaxClock == 16
\* seconds the clock advances in one step of the clock watcher
ClockStep == 8
\* generations of the two AHRS loops that can exist at once
MaxGen == 1
\* generations of the AHRS loops where the supervisor initialises the AHRS again
MaxRespawn == 2
\* serial readers that can be between their return and their deferred Close
MaxClosing == 1
\* records in the largest map updateConstellation is run on by itself
MaxRecords == 256
\* characters in the longest command, and bytes in the longest message, that
\* a frame is built from
MaxPayload == 3

(***************************************************************************)
(* Characters and bytes.                                                   *)
(***************************************************************************)
\* the characters of the modelled lines, in runs of consecutive ASCII codes
Digits == "0123456789"
Upper == "ABCDEFGHIJKLMNOPQRSTUVWXYZ"
Lower == "abcdefghijklmnopqrstuvwxyz"
Punct == "$*+,-."

\* the ASCII code of the k-th character of Punct
PunctCode == <<36, 42, 43, 44, 45, 46>>

\* the one character strings of s
CharsOf(s) == {SubSeq(s, k, k) : k \in 1..Len(s)}

\* the 1-based position of the character c in s
PosIn(s, c) == CHOOSE k \in 1..Len(s) : SubSeq(s, k, k) = c

\* s[a:b] of Go, 0-based, b exclusive
Slice(s, a, b) == SubSeq(s, a + 1, b)

\* s[a:] of Go
SliceFrom(s, a) == SubSeq(s, a + 1, Len(s))

\* byte(c): the ASCII code of a one character string
Ord ==
  [c \in CharsOf(Digits) \cup CharsOf(Upper) \cup CharsOf(Lower) \cup CharsOf(Punct) |->
     IF c \in CharsOf(Digits) THEN 47 + PosIn(Digits, c)
     ELSE IF c \in CharsOf(Upper) THEN 64 + PosIn(Upper, c)
     ELSE IF c \in CharsOf(Lower) THEN 96 + PosIn(Lower, c)
     ELSE PunctCode[PosIn(Punct, c)]]

\* bit k of the byte a
Bit(a, k) == (a \div (2 ^ k)) % 2

\* a ^ b on bytes
Xor8(a, b) ==
    ((Bit(a, 0) + Bit(b, 0)) % 2)
  + ((Bit(a, 1) + Bit(b, 1)) % 2) * 2
  + ((Bit(a, 2) + Bit(b, 2)) % 2) * 4
  + ((Bit(a, 3) + Bit(b, 3)) % 2) * 8
  + ((Bit(a, 4) + Bit(b, 4)) % 2) * 16
  + ((Bit(a, 5) + Bit(b, 5)) % 2) * 32
  + ((Bit(a, 6) + Bit(b, 6)) % 2) * 64
  + ((Bit(a, 7) + Bit(b, 7)) % 2) * 128

\* the XOR of the bytes s[lo..hi] (1-based, inclusive); XOR is associative, so
\* the fold of the Go loop is computed by halves
RECURSIVE XorRange(_, _, _)
XorRange(s, lo, hi) ==
  IF lo > hi THEN 0
  ELSE IF lo = hi THEN Ord[SubSeq(s, lo, lo)]
  ELSE LET mid == (lo + hi) \div 2
       IN  Xor8(XorRange(s, lo, mid), XorRange(s, mid + 1, hi))

\* chk_sum ^= byte(s[i]) over all of s, as makeNMEACmd and validateNMEAChecksum do
XorBytes(s) == XorRange(s, 1, Len(s))

\* strings.HasPrefix(s, "$")
HasPrefixDollar(s) == Len(s) >= 1 /\ SubSeq(s, 1, 1) = "$"

\* 1-based index of the first occurrence of the character c in s at or after
\* position from, or 0 when there is none (strings.Index)
IndexFrom(s, c, from) ==
  LET hits == {k \in from..Len(s) : SubSeq(s, k, k) = c}
  IN  IF hits = {} THEN 0 ELSE CHOOSE k \in hits : \A j \in hits : k <= j

\* strings.Contains(s, c)
Contains(s, c) == IndexFrom(s, c, 1) # 0

\* strings.Split(s, sep) for a one character separator
RECURSIVE Split(_, _)
Split(s, sep) ==
  LET k == IndexFrom(s, sep, 1)
  IN  IF k = 0 THEN <<s>>
      ELSE <<SubSeq(s, 1, k - 1)>> \o Split(SubSeq(s, k + 1, Len(s)), sep)

\* strings.TrimPrefix(s, "$")
TrimPrefixDollar(s) == IF HasPrefixDollar(s) THEN SubSeq(s, 2, Len(s)) ELSE s

HexDigits == "0123456789abcdef"
HexUpper == "0123456789ABCDEF"

\* the value of one hexadecimal digit, -1 when c is none
HexVal(c) ==
  LET lo == {k \in 1..16 : SubSeq(HexDigits, k, k) = c}
      up == {k \in 1..16 : SubSeq(HexUpper, k, k) = c}
  IN  IF lo # {} THEN (CHOOSE k \in lo : TRUE) - 1
      ELSE IF up # {} THEN (CHOOSE k \in up : TRUE) - 1
      ELSE -1

\* strconv.ParseUint(s, 16, 8) for a two character s: <<value, ok>>
ParseHexByte(s) ==
  LET hi == HexVal(SubSeq(s, 1, 1))
      lo == HexVal(SubSeq(s, 2, 2))
  IN  IF hi < 0 \/ lo < 0 THEN <<0, FALSE>> ELSE <<16 * hi + lo, TRUE>>

\* fmt.Sprintf("%02x", b)
Hex02(b) ==
  SubSeq(HexDigits, (b \div 16) + 1, (b \div 16) + 1)
    \o SubSeq(HexDigits, (b % 16) + 1, (b % 16) + 1)

(***************************************************************************)
(* The sentence codec.                                                     *)
(***************************************************************************)
\* fmt.Sprintf("%x", b)
Hex(b) == IF b < 16 THEN SubSeq(HexDigits, b + 1, b + 1) ELSE Hex02(b)

\* makeNMEACmd printing the checksum with "%x" in place of "%02x"
makeNMEACmdUnpadded(cmd) == "$" \o cmd \o "*" \o Hex(XorBytes(cmd)) \o "\r\n"

\* makeNMEACmd: "$", the command, "*", the checksum in two hexadecimal digits, CR LF
makeNMEACmd(cmd) == "$" \o cmd \o "*" \o Hex02(XorBytes(cmd)) \o "\r\n"

\* chksumUBX with sums that do not wrap at a byte
RECURSIVE chksumUBXUnwrapped(_)
chksumUBXUnwrapped(msg) ==
  IF Len(msg) = 0 THEN <<0, 0>>
  ELSE LET ret == chksumUBXUnwrapped(SubSeq(msg, 1, Len(msg) - 1))
       IN  <<ret[1] + msg[Len(msg)], ret[2] + ret[1] + msg[Len(msg)]>>

\* chksumUBX: ret[0] += msg[i]; ret[1] += ret[0] over the bytes of msg, in
\* bytes; the value after the last byte is the one after the bytes before it,
\* stepped once
RECURSIVE chksumUBX(_)
chksumUBX(msg) ==
  IF Len(msg) = 0 THEN <<0, 0>>
  ELSE LET ret == chksumUBX(SubSeq(msg, 1, Len(msg) - 1))
       IN  <<(ret[1] + msg[Len(msg)]) % 256,
             (ret[2] + ((ret[1] + msg[Len(msg)]) % 256)) % 256>>

\* makeUBXCFG: 0xB5, 0x62, class, id, the two bytes of msglen, msg, checksum
makeUBXCFG(class, id, msglen, msg) ==
  LET ret == <<181, 98, class, id, msglen % 256, (msglen \div 256) % 256>> \o msg
  IN  ret \o chksumUBX(SubSeq(ret, 3, Len(ret)))

\* validateNMEAChecksum: <<payload or error text, ok>>
validateNMEAChecksum(s) ==
  IF ~(HasPrefixDollar(s) /\ Contains(s, "*"))
  THEN <<"Invalid NMEA message", FALSE>>
  ELSE LET s_split == Split(TrimPrefixDollar(s), "*")
           s_out == s_split[1]
           s_cs == s_split[2]
       IN  IF Len(s_cs) < 2
           THEN <<"Missing checksum. Fewer than two bytes after asterisk", FALSE>>
           ELSE LET cs == ParseHexByte(SubSeq(s_cs, 1, 2))
                IN  IF ~cs[2] THEN <<"Invalid checksum", FALSE>>
                    ELSE IF XorBytes(s_out) # cs[1]
                         THEN <<"Checksum failed", FALSE>>
                         ELSE <<s_out, TRUE>>

(***************************************************************************)
(* strconv and fmt.                                                        *)
(***************************************************************************)
IsDigit(c) == c \in CharsOf(Digits)

AllDigits(s) == \A k \in 1..Len(s) : IsDigit(SubSeq(s, k, k))

\* the number a string of decimal digits denotes
RECURSIVE DigitsVal(_)
DigitsVal(s) ==
  IF Len(s) = 0 THEN 0
  ELSE 10 * DigitsVal(SubSeq(s, 1, Len(s) - 1)) + (PosIn(Digits, SubSeq(s, Len(s), Len(s))) - 1)

\* s without one leading sign
Unsigned(s) ==
  IF Len(s) > 0 /\ SubSeq(s, 1, 1) \in {"+", "-"} THEN SubSeq(s, 2, Len(s)) ELSE s

Negative(s) == Len(s) > 0 /\ SubSeq(s, 1, 1) = "-"

\* strconv.Atoi(s): [v |-> value, ok |-> err == nil]
Atoi(s) ==
  LET u == Unsigned(s)
  IN  IF Len(u) = 0 \/ ~AllDigits(u) THEN [v |-> 0, ok |-> FALSE]
      ELSE [v |-> IF Negative(s) THEN 0 - DigitsVal(u) ELSE DigitsVal(u), ok |-> TRUE]

\* the first three digits of a fraction, in thousandths
FracMilli(f) ==
  DigitsVal(SubSeq(f \o "000", 1, 3))

\* the number with integer digits ip and fraction digits fp, negated if neg
ParseDecimal(ip, fp, neg) ==
  IF Len(ip) + Len(fp) = 0 \/ ~AllDigits(ip) \/ ~AllDigits(fp)
  THEN [v |-> 0, ok |-> FALSE]
  ELSE [v |-> (IF neg THEN 0 - 1 ELSE 1) * (1000 * DigitsVal(ip) + FracMilli(fp)),
        ok |-> TRUE]

\* u is the text without its sign, dot the place of its first point or 0
ParseUnsigned(u, dot, neg) ==
  ParseDecimal(IF dot = 0 THEN u ELSE SubSeq(u, 1, dot - 1),
               IF dot = 0 THEN "" ELSE SubSeq(u, dot + 1, Len(u)),
               neg)

\* strconv.ParseFloat(s, 32) for plain decimal text (sign, digits, point, digits):
\* [v |-> value in thousandths, ok |-> err == nil].  Exponents, "Inf" and "NaN",
\* which Go also accepts, are not in the modelled inputs and are reported as errors.
ParseFloat(s) == ParseUnsigned(Unsigned(s), IndexFrom(Unsigned(s), ".", 1), Negative(s))

\* fmt.Sprintf("%d", n)
RECURSIVE Itoa(_)
Itoa(n) ==
  IF n < 0 THEN "-" \o Itoa(0 - n)
  ELSE IF n < 10 THEN SubSeq(Digits, n + 1, n + 1)
  ELSE Itoa(n \div 10) \o SubSeq(Digits, (n % 10) + 1, (n % 10) + 1)

\* x[k] of Go for the 0-based field list x
F(x, k) == x[k + 1]

\* conversions between integer types
Uint8(n) == n % 256
Uint16(n) == n % 65536
Int8(n) == ((n + 128) % 256) - 128
Int16(n) == ((n + 32768) % 65536) - 32768

\* v * 3.28084 (metres to feet) on thousandths
ToFeet(v) == v * 3 + (v * 28) \div 100 + (v * 84) \div 100000

\* v * 0.540003 (km/h to knots) on thousandths
ToKnots(v) == (v * 54) \div 100 + (v * 3) \div 1000000

\* uint16(f) of a float64 given in thousandths: truncation toward zero
TruncUint16(v) == Uint16(IF v >= 0 THEN v \div 1000 ELSE 0 - ((0 - v) \div 1000))

(***************************************************************************)
(* Program constants.                                                      *)
(***************************************************************************)
SAT_TYPE_UNKNOWN == 0
SAT_TYPE_GPS == 1
SAT_TYPE_GLONASS == 2
SAT_TYPE_SBAS == 10

\* seconds without a valid NMEA line after which the GPS counts as disconnected
ConnectedSeconds == 5
\* seconds without a fix after which the position counts as invalid
ValidSeconds == 15
\* seconds after which an untracked satellite is removed
TrackedSeconds == 10
\* seconds after which a satellite no longer counts as in the solution
SolutionSeconds == 5
\* seconds of drift between GPS time and host time that trigger a time set
DriftSeconds == 3
\* first GPS week that is accepted, and the first that is not
MinGPSWeek == 1877
MaxGPSWeek == 32767

(***************************************************************************)
(* The situation record and the satellite records.                         *)
(***************************************************************************)
\* the fields of SituationData written from GPS sentences
GPSFields ==
  {"LastFixSinceMidnightUTC", "Lat", "Lng", "Quality", "HeightAboveEllipsoid",
   "GeoidSep", "Satellites", "SatellitesTracked", "SatellitesSeen", "Accuracy",
   "NACp", "Alt", "AccuracyVert", "GPSVertVel", "LastFixLocalTime", "TrueCourse",
   "GroundSpeed", "LastGroundTrackTime", "GPSTime", "LastGPSTimeTime",
   "LastValidNMEAMessageTime", "LastValidNMEAMessage"}

\* the fields of SituationData written from the barometer and the IMU
AttitudeFields ==
  {"Temp", "Pressure_alt", "LastTempPressTime", "Pitch", "Roll", "Yaw",
   "Gyro_heading", "LastAttitudeTime"}

\* the zero value of SituationData (the two mutex pointers are the variables
\* mu_GPS and mu_Attitude)
ZeroSituation ==
  [LastFixSinceMidnightUTC |-> 0, Lat |-> 0, Lng |-> 0, Quality |-> 0,
   HeightAboveEllipsoid |-> 0, GeoidSep |-> 0, Satellites |-> 0,
   SatellitesTracked |-> 0, SatellitesSeen |-> 0, Accuracy |-> 0, NACp |-> 0,
   Alt |-> 0, AccuracyVert |-> 0, GPSVertVel |-> 0, LastFixLocalTime |-> 0,
   TrueCourse |-> 0, GroundSpeed |-> 0, LastGroundTrackTime |-> 0, GPSTime |-> 0,
   LastGPSTimeTime |-> 0, LastValidNMEAMessageTime |-> 0,
   LastValidNMEAMessage |-> "",
   Temp |-> 0, Pressure_alt |-> 0, LastTempPressTime |-> 0, Pitch |-> 0,
   Roll |-> 0, Yaw |-> 0, Gyro_heading |-> 0, LastAttitudeTime |-> 0]

\* the restriction of a situation record to a set of fields
Project(sit, fields) == [f \in fields |-> sit[f]]

\* a SatelliteInfo with the three fields a handler sets on first mention
NewSatellite(svStr, sv, svType) ==
  [SatelliteNMEA |-> Uint8(sv), SatelliteID |-> svStr, Elevation |-> 0,
   Azimuth |-> 0, Signal |-> 0, Type |-> svType, TimeLastSolution |-> 0,
   TimeLastSeen |-> 0, TimeLastTracked |-> 0, InSolution |-> FALSE]

\* stratuxClock.Since(t)
Since(now, t) == now - t

\* calculateNACp, on an accuracy in thousandths of a metre
calculateNACp(accuracy) ==
  IF accuracy < 3000 THEN 11
  ELSE IF accuracy < 10000 THEN 10
  ELSE IF accuracy < 30000 THEN 9
  ELSE IF accuracy < 92600 THEN 8
  ELSE IF accuracy < 185200 THEN 7
  ELSE IF accuracy < 555600 THEN 6
  ELSE 0

(***************************************************************************)
(* The constellation tracker.                                              *)
(***************************************************************************)
\* Fresh dropping a record already when it is exactly TrackedSeconds old
FreshBelowLimit(sats, now) ==
  {id \in DOMAIN sats : Since(now, sats[id].TimeLastTracked) < TrackedSeconds}

\* the records updateConstellation keeps
Fresh(sats, now) ==
  {id \in DOMAIN sats : ~(Since(now, sats[id].TimeLastTracked) > TrackedSeconds)}

\* the map after updateConstellation
ConstellationAfter(sats, now) ==
  [id \in Fresh(sats, now) |->
     IF Since(now, sats[id].TimeLastSolution) > SolutionSeconds
     THEN [sats[id] EXCEPT !.InSolution = FALSE]
     ELSE sats[id]]

\* the counters updateConstellation publishes; each is a uint8 while it counts
ConstellationCounts(sats, now) ==
  LET kept == ConstellationAfter(sats, now)
  IN  [sats |-> Uint8(Cardinality({id \in DOMAIN kept : kept[id].InSolution})),
       tracked |-> Uint8(Cardinality(DOMAIN kept)),
       seen |-> Uint8(Cardinality({id \in DOMAIN kept : kept[id].Signal > 0}))]

\* the situation after updateConstellation
SituationAfterConstellation(sit, sats, now) ==
  LET c == ConstellationCounts(sats, now)
  IN  [sit EXCEPT !.Satellites = c.sats, !.SatellitesTracked = c.tracked,
                  !.SatellitesSeen = c.seen]

(***************************************************************************)
(* Satellite identifiers and the per-satellite updates of the handlers.    *)
(***************************************************************************)
\* the identifier branch of the PUBX,03 handler: type, key and NMEA number
SatIdPUBX03(sv) ==
  IF sv < 33 THEN [type |-> SAT_TYPE_GPS, str |-> "G" \o Itoa(sv), sv |-> sv]
  ELSE IF sv < 65 THEN [type |-> SAT_TYPE_SBAS, str |-> "S" \o Itoa(sv + 87), sv |-> sv]
  ELSE IF sv < 97 THEN [type |-> SAT_TYPE_GLONASS, str |-> "R" \o Itoa(sv - 64), sv |-> sv]
  ELSE IF sv >= 120 /\ sv < 162
       THEN [type |-> SAT_TYPE_SBAS, str |-> "S" \o Itoa(sv), sv |-> sv - 87]
  ELSE [type |-> SAT_TYPE_UNKNOWN, str |-> "U" \o Itoa(sv), sv |-> sv]

\* the identifier branch of the GSA and GSV handlers
SatIdNMEA(sv) ==
  IF sv < 33 THEN [type |-> SAT_TYPE_GPS, str |-> "G" \o Itoa(sv), sv |-> sv]
  ELSE IF sv < 65 THEN [type |-> SAT_TYPE_SBAS, str |-> "S" \o Itoa(sv + 87), sv |-> sv]
  ELSE IF sv < 97 THEN [type |-> SAT_TYPE_GLONASS, str |-> "R" \o Itoa(sv - 64), sv |-> sv]
  ELSE [type |-> SAT_TYPE_UNKNOWN, str |-> "U" \o Itoa(sv), sv |-> sv]

\* the record a handler starts from: the stored one, or a new one
Lookup(sats, id) ==
  IF id.str \in DOMAIN sats THEN sats[id.str]
  ELSE NewSatellite(id.str, id.sv, id.type)

\* Satellites[thisSatellite.SatelliteID] = thisSatellite
Store(sats, rec) ==
  [k \in DOMAIN sats \cup {rec.SatelliteID} |->
     IF k = rec.SatelliteID THEN rec ELSE sats[k]]

\* Atoi with a default for text that does not parse
AtoiOr(s, dflt) == IF Atoi(s).ok THEN Atoi(s).v ELSE dflt

\* the record of satellite block i of a PUBX,03 sentence x
SatellitePUBX03(x, i, sats, now) ==
  LET id == SatIdPUBX03(Atoi(F(x, 3 + 6 * i)).v)
      s0 == [Lookup(sats, id) EXCEPT !.TimeLastTracked = now]
      cno == Atoi(F(x, 7 + 6 * i))
      s1 == [s0 EXCEPT !.Elevation = Int16(AtoiOr(F(x, 6 + 6 * i), -999)),
                       !.Azimuth = Int16(AtoiOr(F(x, 5 + 6 * i), -999)),
                       !.TimeLastSeen = IF cno.ok /\ cno.v > 0 THEN now ELSE @,
                       !.Signal = Int8(IF cno.ok THEN cno.v ELSE -99)]
  IN  IF F(x, 4 + 6 * i) = "U"
      THEN [s1 EXCEPT !.InSolution = TRUE, !.TimeLastSolution = now]
      ELSE [s1 EXCEPT !.InSolution = FALSE]

\* the record of the satellite a GSA sentence lists as number sv
SatelliteGSA(sv, sats, now) ==
  [Lookup(sats, SatIdNMEA(sv)) EXCEPT !.InSolution = TRUE, !.TimeLastSolution = now,
                                      !.TimeLastSeen = now, !.TimeLastTracked = now]

\* the record of satellite block i of a GSV sentence x; quality is the
\* situation's Quality when the block is handled
SatelliteGSV(x, i, sats, now, quality) ==
  LET id == SatIdNMEA(Atoi(F(x, 4 + 4 * i)).v)
      s0 == [Lookup(sats, id) EXCEPT !.TimeLastTracked = now]
      cno == Atoi(F(x, 7 + 4 * i))
      sig == IF ~cno.ok THEN -99 ELSE IF cno.v > 127 THEN 127 ELSE cno.v
      s1 == [s0 EXCEPT !.Elevation = Int16(AtoiOr(F(x, 5 + 4 * i), -999)),
                       !.Azimuth = Int16(AtoiOr(F(x, 6 + 4 * i), -999)),
                       !.InSolution = IF cno.ok THEN @ ELSE FALSE,
                       !.TimeLastSeen = IF cno.ok /\ cno.v > 0 THEN now ELSE @,
                       !.Signal = Int8(sig)]
  IN  IF s1.Type # SAT_TYPE_SBAS THEN s1
      ELSE IF quality = 2
           THEN IF s1.Signal > 16
                THEN [s1 EXCEPT !.InSolution = TRUE, !.TimeLastSolution = now]
                ELSE s1
           ELSE [s1 EXCEPT !.InSolution = FALSE]

(***************************************************************************)
(* Times of day, positions and GPS dates, as the handlers decode them.     *)
(***************************************************************************)
\* a / b rounded toward zero
Quot(a, b) == IF a >= 0 THEN a \div b ELSE 0 - ((0 - a) \div b)

\* hr, min and sec of a field HHMMSS.sss of at least minLen characters
TimeOfDay(s, minLen) ==
  IF Len(s) < minLen THEN [ok |-> FALSE]
  ELSE LET hr == Atoi(Slice(s, 0, 2))
           min == Atoi(Slice(s, 2, 4))
           sec == ParseFloat(SliceFrom(s, 4))
       IN  IF ~hr.ok \/ ~min.ok \/ ~sec.ok THEN [ok |-> FALSE]
           ELSE [ok |-> TRUE, hr |-> hr.v, min |-> min.v, sec |-> sec.v]

\* float32(3600*hr+60*min) + float32(sec), in thousandths of a second
SinceMidnight(t) == (3600 * t.hr + 60 * t.min) * 1000 + t.sec

\* a field DDMM.mmmm (deg = 2) or DDDMM.mmmm (deg = 3) of at least minLen
\* characters, with its hemisphere letter: degrees in thousandths, negative
\* for the hemisphere neg
Degrees(s, hemi, minLen, deg, neg) ==
  IF Len(s) < minLen THEN [ok |-> FALSE]
  ELSE LET hr == Atoi(Slice(s, 0, deg))
           minf == ParseFloat(SliceFrom(s, deg))
       IN  IF ~hr.ok \/ ~minf.ok THEN [ok |-> FALSE]
           ELSE [ok |-> TRUE,
                 v |-> (IF hemi = neg THEN 0 - 1 ELSE 1)
                         * (hr.v * 1000 + Quot(minf.v, 60))]

LeapYear(y) == (y % 4 = 0 /\ y % 100 # 0) \/ y % 400 = 0

DaysInMonth(y, m) ==
  IF m = 2 THEN (IF LeapYear(y) THEN 29 ELSE 28)
  ELSE IF m \in {4, 6, 9, 11} THEN 30 ELSE 31

\* days from 2000-01-01 to the civil date y-m-d
DaysFromCivil(y, m, d) ==
  LET yy == IF m <= 2 THEN y - 1 ELSE y
      era == yy \div 400
      yoe == yy - era * 400
      doy == (153 * (IF m > 2 THEN m - 3 ELSE m + 9) + 2) \div 5 + d - 1
      doe == yoe * 365 + yoe \div 4 - yoe \div 100 + doy
  IN  era * 146097 + doe - 719468 - 10957

\* time.Parse("020106 15:04:05.000", fmt.Sprintf("%s %02d:%02d:%06.3f", date, hr,
\* min, sec)): [ok |-> err == nil, t |-> whole seconds since 2000-01-01 UTC].
\* A two digit year below 69 is in 20xx.
ParseGPSTime(date, t) ==
  IF Len(date) # 6 \/ ~AllDigits(date) THEN [ok |-> FALSE]
  ELSE LET d == DigitsVal(Slice(date, 0, 2))
           m == DigitsVal(Slice(date, 2, 4))
           y2 == DigitsVal(Slice(date, 4, 6))
           y == IF y2 >= 69 THEN 1900 + y2 ELSE 2000 + y2
       IN  IF \/ m < 1 \/ m > 12 \/ d < 1 \/ d > DaysInMonth(y, m)
              \/ t.hr < 0 \/ t.hr > 23 \/ t.min < 0 \/ t.min > 59
              \/ t.sec < 0 \/ t.sec >= 60000
           THEN [ok |-> FALSE]
           ELSE [ok |-> TRUE,
                 t |-> DaysFromCivil(y, m, d) * 86400 + 3600 * t.hr + 60 * t.min
                       + t.sec \div 1000]

\* Drifted without its second test
DriftedBehind(host, gpsTime) == host - gpsTime > DriftSeconds

\* time.Since(gpsTime) > 3*time.Second || time.Since(gpsTime) < -3*time.Second
Drifted(host, gpsTime) ==
  host - gpsTime > DriftSeconds \/ host - gpsTime < 0 - DriftSeconds

(***************************************************************************)
(* The handlers of the sentences that are parsed into a scratch copy.      *)
(* Each takes the field list x, the scratch copy tmp as copied from        *)
(* mySituation, and the clock, and gives [ok |-> FALSE] where the Go code  *)
(* returns false and [ok |-> TRUE, tmp |-> the scratch to commit] else.    *)
(***************************************************************************)
\* the quality a PUBX,00 navigation status stands for; 0 rejects
NavStatQuality(st) ==
  IF st \in {"D2", "D3"} THEN 2
  ELSE IF st \in {"G2", "G3"} THEN 1
  ELSE IF st \in {"DR", "RK"} THEN 6
  ELSE 0

\* WithGroundTrack taking the course at 3 knots and above
WithGroundTrackFromThree(tmp, knots, tc, now) ==
  [tmp EXCEPT !.GroundSpeed = TruncUint16(knots),
              !.TrueCourse = IF knots >= 3000 THEN tc ELSE @,
              !.LastGroundTrackTime = now]

\* tmp with course and speed set from a speed in thousandths of a knot
WithGroundTrack(tmp, knots, tc, now) ==
  [tmp EXCEPT !.GroundSpeed = TruncUint16(knots),
              !.TrueCourse = IF knots > 3000 THEN tc ELSE @,
              !.LastGroundTrackTime = now]

\* ParsePUBX00 taking the ellipsoid height for the altitude
ParsePUBX00WithoutSeparation(x, tmp, now) ==
  IF Len(x) < 20 THEN [ok |-> FALSE]
  ELSE
  LET q == NavStatQuality(F(x, 8))
      hAcc == ParseFloat(F(x, 9))
      vAcc == ParseFloat(F(x, 10))
      tod == TimeOfDay(F(x, 2), 8)
      lat == Degrees(F(x, 3), F(x, 4), 10, 2, "S")
      lng == Degrees(F(x, 5), F(x, 6), 11, 3, "W")
      hae == ParseFloat(F(x, 7))
      gs == ParseFloat(F(x, 11))
      tc == ParseFloat(F(x, 12))
      vv == ParseFloat(F(x, 13))
      sat == Atoi(F(x, 18))
  IN  IF \/ q = 0 \/ ~hAcc.ok \/ ~vAcc.ok \/ ~tod.ok \/ ~lat.ok \/ ~lng.ok
         \/ ~hae.ok \/ ~gs.ok \/ ~tc.ok \/ ~vv.ok \/ ~sat.ok
      THEN [ok |-> FALSE]
      ELSE [ok |-> TRUE,
            tmp |-> WithGroundTrack(
              [tmp EXCEPT !.Quality = q,
                          !.Accuracy = hAcc.v * 2,
                          !.NACp = calculateNACp(hAcc.v * 2),
                          !.AccuracyVert = vAcc.v * 2,
                          !.LastFixSinceMidnightUTC = SinceMidnight(tod),
                          !.Lat = lat.v,
                          !.Lng = lng.v,
                          !.Alt = ToFeet(hae.v),
                          !.HeightAboveEllipsoid = ToFeet(hae.v),
                          !.LastFixLocalTime = now,
                          !.GPSVertVel = 0 - ToFeet(vv.v),
                          !.Satellites = Uint16(sat.v)],
              ToKnots(gs.v), tc.v, now)]

ParsePUBX00(x, tmp, now) ==
  IF Len(x) < 20 THEN [ok |-> FALSE]
  ELSE
  LET q == NavStatQuality(F(x, 8))
      hAcc == ParseFloat(F(x, 9))
      vAcc == ParseFloat(F(x, 10))
      tod == TimeOfDay(F(x, 2), 8)
      lat == Degrees(F(x, 3), F(x, 4), 10, 2, "S")
      lng == Degrees(F(x, 5), F(x, 6), 11, 3, "W")
      hae == ParseFloat(F(x, 7))
      gs == ParseFloat(F(x, 11))
      tc == ParseFloat(F(x, 12))
      vv == ParseFloat(F(x, 13))
      sat == Atoi(F(x, 18))
  IN  IF \/ q = 0 \/ ~hAcc.ok \/ ~vAcc.ok \/ ~tod.ok \/ ~lat.ok \/ ~lng.ok
         \/ ~hae.ok \/ ~gs.ok \/ ~tc.ok \/ ~vv.ok \/ ~sat.ok
      THEN [ok |-> FALSE]
      ELSE [ok |-> TRUE,
            tmp |-> WithGroundTrack(
              [tmp EXCEPT !.Quality = q,
                          !.Accuracy = hAcc.v * 2,
                          !.NACp = calculateNACp(hAcc.v * 2),
                          !.AccuracyVert = vAcc.v * 2,
                          !.LastFixSinceMidnightUTC = SinceMidnight(tod),
                          !.Lat = lat.v,
                          !.Lng = lng.v,
                          !.Alt = ToFeet(hae.v) - tmp.GeoidSep,
                          !.HeightAboveEllipsoid = ToFeet(hae.v),
                          !.LastFixLocalTime = now,
                          !.GPSVertVel = 0 - ToFeet(vv.v),
                          !.Satellites = Uint16(sat.v)],
              ToKnots(gs.v), tc.v, now)]

ParseVTG(x, tmp, now) ==
  IF Len(x) < 9 THEN [ok |-> FALSE]
  ELSE
  LET gs == ParseFloat(F(x, 5))
      tc == ParseFloat(F(x, 1))
  IN  IF ~gs.ok \/ ~tc.ok THEN [ok |-> FALSE]
      ELSE [ok |-> TRUE, tmp |-> WithGroundTrack(tmp, gs.v, tc.v, now)]

\* ParseGGA with the height above the ellipsoid taken to be the altitude
ParseGGAWithoutSeparation(x, tmp, now) ==
  IF Len(x) < 15 THEN [ok |-> FALSE]
  ELSE
  LET q == Atoi(F(x, 6))
      tod == TimeOfDay(F(x, 1), 7)
      lat == Degrees(F(x, 2), F(x, 3), 4, 2, "S")
      lng == Degrees(F(x, 4), F(x, 5), 5, 3, "W")
      alt == ParseFloat(F(x, 9))
      sep == ParseFloat(F(x, 11))
  IN  IF ~q.ok \/ ~tod.ok \/ ~lat.ok \/ ~lng.ok \/ ~alt.ok \/ ~sep.ok
      THEN [ok |-> FALSE]
      ELSE [ok |-> TRUE,
            tmp |-> [tmp EXCEPT !.Quality = Uint8(q.v),
                                !.LastFixSinceMidnightUTC = SinceMidnight(tod),
                                !.Lat = lat.v,
                                !.Lng = lng.v,
                                !.Alt = ToFeet(alt.v),
                                !.GeoidSep = ToFeet(sep.v),
                                !.HeightAboveEllipsoid = ToFeet(alt.v),
                                !.LastFixLocalTime = now]]

ParseGGA(x, tmp, now) ==
  IF Len(x) < 15 THEN [ok |-> FALSE]
  ELSE
  LET q == Atoi(F(x, 6))
      tod == TimeOfDay(F(x, 1), 7)
      lat == Degrees(F(x, 2), F(x, 3), 4, 2, "S")
      lng == Degrees(F(x, 4), F(x, 5), 5, 3, "W")
      alt == ParseFloat(F(x, 9))
      sep == ParseFloat(F(x, 11))
  IN  IF ~q.ok \/ ~tod.ok \/ ~lat.ok \/ ~lng.ok \/ ~alt.ok \/ ~sep.ok
      THEN [ok |-> FALSE]
      ELSE [ok |-> TRUE,
            tmp |-> [tmp EXCEPT !.Quality = Uint8(q.v),
                                !.LastFixSinceMidnightUTC = SinceMidnight(tod),
                                !.Lat = lat.v,
                                !.Lng = lng.v,
                                !.Alt = ToFeet(alt.v),
                                !.GeoidSep = ToFeet(sep.v),
                                !.HeightAboveEllipsoid = ToFeet(sep.v) + ToFeet(alt.v),
                                !.LastFixLocalTime = now]]

\* The RMC handler runs the date command before it has looked at the position:
\* date is <<>> when the command is not run and <<t>> when it is run for GPS
\* time t, whether or not the sentence is then accepted.
ParseRMC(x, tmp, now, host) ==
  IF Len(x) < 11 \/ F(x, 2) # "A" THEN [ok |-> FALSE, date |-> <<>>]
  ELSE
  LET tod == TimeOfDay(F(x, 1), 7)
  IN  IF ~tod.ok THEN [ok |-> FALSE, date |-> <<>>]
      ELSE
      LET gt == ParseGPSTime(F(x, 9), tod)
          date == IF gt.ok /\ Drifted(host, gt.t) THEN <<gt.t>> ELSE <<>>
          lat == Degrees(F(x, 3), F(x, 4), 4, 2, "S")
          lng == Degrees(F(x, 5), F(x, 6), 5, 3, "W")
          gs == ParseFloat(F(x, 7))
          tc == ParseFloat(F(x, 8))
      IN  IF ~lat.ok \/ ~lng.ok \/ ~gs.ok \/ ~tc.ok
          THEN [ok |-> FALSE, date |-> date]
          ELSE [ok |-> TRUE, date |-> date,
                tmp |-> WithGroundTrack(
                  [tmp EXCEPT !.LastFixSinceMidnightUTC = SinceMidnight(tod),
                              !.LastGPSTimeTime = IF gt.ok THEN now ELSE @,
                              !.GPSTime = IF gt.ok THEN gt.t ELSE @,
                              !.Lat = lat.v,
                              !.Lng = lng.v,
                              !.LastFixLocalTime = now],
                  gs.v, tc.v, now)]

\* The PUBX,04 handler writes mySituation itself: sit is the situation after an
\* accepted sentence, date as for RMC.
ParsePUBX04(x, sit, now, host) ==
  LET week == Atoi(F(x, 5))
  IN  IF ~week.ok \/ week.v < MinGPSWeek \/ week.v >= MaxGPSWeek
      THEN [ok |-> FALSE, date |-> <<>>]
      ELSE
      LET tod == TimeOfDay(F(x, 2), 7)
      IN  IF ~tod.ok THEN [ok |-> FALSE, date |-> <<>>]
          ELSE
          LET gt == ParseGPSTime(F(x, 3), tod)
          IN  IF ~gt.ok THEN [ok |-> FALSE, date |-> <<>>]
              ELSE [ok |-> TRUE,
                    date |-> IF Drifted(host, gt.t) THEN <<gt.t>> ELSE <<>>,
                    sit |-> [sit EXCEPT !.LastGPSTimeTime = now,
                                        !.GPSTime = gt.t,
                                        !.LastFixSinceMidnightUTC = SinceMidnight(tod)]]

\* The part of the GSA handler after its satellite loop: sat satellites were
\* listed, svSBAS and svGLONASS say whether an SBAS or GLONASS one was among them.
FinishGSA(x, tmp, sat, svSBAS, svGLONASS) ==
  LET counted ==
        IF sat < 12 \/ tmp.Satellites < 13
        THEN [tmp EXCEPT !.Satellites =
                Uint16(IF tmp.Quality = 2 /\ ~svSBAS /\ ~svGLONASS THEN sat + 1 ELSE sat)]
        ELSE tmp
      hdop == ParseFloat(F(x, 16))
      vdop == ParseFloat(F(x, 17))
      acc == IF tmp.Quality = 2 THEN hdop.v * 4 ELSE hdop.v * 8
  IN  IF ~hdop.ok \/ ~vdop.ok THEN [ok |-> FALSE]
      ELSE [ok |-> TRUE,
            tmp |-> [counted EXCEPT !.Accuracy = acc,
                                    !.NACp = calculateNACp(acc),
                                    !.AccuracyVert = vdop.v * 5]]

(***************************************************************************)
(* The lines the serial port delivers.  A payload is the text between "$"  *)
(* and "*"; Framed is the line the scanner yields for the frame a device   *)
(* sends: the frame without its CR LF.                                     *)
(***************************************************************************)
Framed(payload) ==
  SubSeq(makeNMEACmd(payload), 1, Len(makeNMEACmd(payload)) - 2)

GGAFix == "GPGGA,123519.00,4807.038,N,01131.000,E,1,08,0.9,545.4,M,46.9,M,,"
GGADiff == "GPGGA,123520.00,4807.038,S,01131.000,W,2,08,0.9,545.4,M,46.9,M,,"
GGANoAlt == "GPGGA,123519.00,4807.038,N,01131.000,E,1,08,0.9,,M,46.9,M,,"
\* 99 degrees of latitude and 199 of longitude
GGAFarNorth == "GPGGA,123521.00,9907.038,N,19931.000,E,1,08,0.9,545.4,M,46.9,M,,"
VTGMoving == "GPVTG,054.7,T,034.4,M,005.5,N,010.2,K"
VTGBlank == "GPVTG,,T,,M,,N,,K"
RMCFix == "GPRMC,123519.00,A,4807.038,N,01131.000,E,022.4,084.4,010316,003.1,W"
RMCNoLat == "GPRMC,123519.00,A,48,N,01131.000,E,022.4,084.4,010316,003.1,W"
\* sentences with a ground speed of 3 knots (VTG), of 0.5 knots (RMC) and of
\* 5.55 km/h, which is 2.997 knots (PUBX,00)
VTGThree == "GPVTG,120.0,T,100.0,M,003.0,N,005.6,K"
RMCSlow == "GPRMC,123519.00,A,4807.038,N,01131.000,E,000.5,200.0,010316,003.1,W"
PUBX00Slow ==
  "PUBX,00,123519.00,4807.03800,N,01131.00000,E,545.4,G3,2.1,2.0,5.55,310.00,-0.5,,0.92,1.19,0.77,8,0,0"
GSAOne == "GPGSA,A,3,04,,,,,,,,,,,,2.5,1.3,2.1"
GSANoHDOP == "GPGSA,A,3,04,,,,,,,,,,,,2.5,,2.1"
GSVOne == "GPGSV,1,1,01,04,40,083,46"
GSVBadSecond == "GPGSV,1,1,02,04,40,083,46,xx,10,020,30"
PUBX00Fix ==
  "PUBX,00,123519.00,4807.03800,N,01131.00000,E,545.4,G3,2.1,2.0,77.52,54.70,-0.5,,0.92,1.19,0.77,8,0,0"
PUBX03One == "PUBX,03,1,4,U,083,40,46,010"
PUBX03BadId == "PUBX,03,1,xx,U,083,40,46,010"
\* signal strengths outside the range of int8, above and below
PUBX03Strong == "PUBX,03,2,5,U,083,40,128,010,6,e,090,30,-200,000"
GSVStrong == "GPGSV,1,1,02,07,40,083,128,08,10,020,-200"
PUBX04Clock == "PUBX,04,123519.00,010316,213319.00,1886,17,0,0,21"
PUBX04OldWeek == "PUBX,04,123519.00,010316,213319.00,1000,17,0,0,21"
Unhandled == "GPGLL,4807.038,N,01131.000,E,123519,A"
\* sentences about satellites of all families: seven GPS satellites; a GPS
\* and a GLONASS one; SBAS ones by their NMEA number 33 and by their PRN 133,
\* with a weak and a strong signal; the number 0
GSASeven == "GPGSA,A,3,01,02,03,04,05,06,07,,,,,,2.5,1.3,2.1"
GSAGlonass == "GPGSA,A,3,04,65,,,,,,,,,,,2.5,1.3,2.1"
GSAWaas == "GPGSA,A,3,33,133,,,,,,,,,,,2.5,1.3,2.1"
GSVWaasWeak == "GPGSV,1,1,02,33,40,083,10,133,10,020,30"
GSVWaasStrong == "GPGSV,1,1,01,33,40,083,40"
PUBX03Waas == "PUBX,03,2,133,U,083,40,46,010,0,-,090,30,20,000"

\* lines that fail validateNMEAChecksum: no "$", no "*", a one character
\* checksum, a checksum that is not hexadecimal, and one that does not match
NoDollar == "GPVTG,054.7,T,034.4,M,005.5,N,010.2,K*48"
NoStar == "$GPVTG,054.7,T,034.4,M,005.5,N,010.2,K"
ShortChecksum == "$" \o VTGMoving \o "*4"
NonHexChecksum == "$" \o VTGMoving \o "*ZZ"
WrongChecksum == "$" \o GGAFix \o "*00"

CorruptLines == {NoDollar, NoStar, ShortChecksum, NonHexChecksum, WrongChecksum}

\* every line the parser is checked on, alone
LinesParser ==
  {Framed(pl) : pl \in {GGAFix, GGADiff, GGANoAlt, GGAFarNorth, VTGMoving,
                        VTGBlank, RMCFix, RMCNoLat, GSAOne, GSANoHDOP, GSVOne,
                        GSVBadSecond, GSVStrong, PUBX00Fix, PUBX03One,
                        PUBX03BadId, PUBX03Strong, PUBX04Clock, PUBX04OldWeek,
                        Unhandled}}
  \cup CorruptLines

\* the lines delivered while every task runs
LinesSpec == {Framed(GGAFix), Framed(VTGMoving), Framed(GSANoHDOP), WrongChecksum}

\* the lines delivered while the tasks that use the GPS sub-record run
LinesGPS == {Framed(GGAFix), Framed(GSAOne), WrongChecksum}

\* the lines delivered while the two AHRS loops run
LinesAHRS == {Framed(GSAOne)}

\* the host's wall clock when the program starts: 2016-03-01 12:35:00 UTC
HostStart == DaysFromCivil(2016, 3, 1) * 86400 + 12 * 3600 + 35 * 60

\* the pitch and roll the IMU gives, and the temperature and pressure altitude
\* the barometer gives, in thousandths
AttitudeSamples == {<<1500, -2500>>}
BaroSamples == {<<21500, 1200000>>}

(***************************************************************************)
(* The state.                                                              *)
(***************************************************************************)
VARIABLES
  stratuxClock,    \* stratuxClock.Time, in seconds
  hostClock,       \* the host's wall clock, in seconds since 2000-01-01 UTC
  dateCalls,       \* the GPS times the date command was run with, in order
  globalSettings,  \* GPS_Enabled, AHRS_Enabled
  globalStatus,    \* GPS_connected, RY835AI_connected
  readyToInitGPS,
  serialPort,      \* "nil", "open" or "closed"
  closing,         \* serial readers that returned and still run their deferred Close
  mySituation,
  Satellites,
  mu_GPS,          \* the task holding mySituation.mu_GPS, "" when free
  mu_Attitude,     \* the task holding mySituation.mu_Attitude, "" when free
  satelliteMutex,  \* the task holding satelliteMutex, "" when free
  gps,             \* where gpsSerialReader and the processNMEALine it calls stand
  nmea,            \* the locals of processNMEALine
  scanned,         \* lines the scanner has delivered
  entry,           \* the GPS sub-record and Satellites when processNMEALine was entered
  downstream,      \* a downstream module taking a snapshot of the GPS sub-record
  validity,        \* a caller of isGPSValid
  att,             \* the attitudeReaderSender goroutines, by generation
  env,             \* the tempAndPressureReader goroutines, by generation
  ahrsFrame,       \* the last attitude frame handed to sendMsg
  codec,           \* a call of makeNMEACmd or makeUBXCFG: arguments and results
  process          \* "running", or "panic" once the Go runtime has ended the program

\* no call of the frame builders
NoCodec == [op |-> "none", args |-> <<>>, ret |-> <<>>, back |-> <<>>]

clocks == <<stratuxClock, hostClock>>
settings == <<globalSettings>>
serial == <<readyToInitGPS, serialPort, closing>>
mutexes == <<mu_GPS, mu_Attitude, satelliteMutex>>
parser == <<gps, nmea, scanned, entry>>
others == <<downstream, validity>>
ahrs == <<att, env, ahrsFrame>>

vars ==
  <<stratuxClock, hostClock, dateCalls, globalSettings, globalStatus,
    readyToInitGPS, serialPort, closing, mySituation, Satellites, mu_GPS,
    mu_Attitude, satelliteMutex, gps, nmea, scanned, entry, downstream, validity,
    att, env, ahrsFrame, codec, process>>

Gens == 1 .. MaxGen

\* the locals of processNMEALine outside a call; l and sentenceUsed stay with
\* the caller
NoCall ==
  [l |-> "", x |-> <<>>, tmpSituation |-> ZeroSituation, i |-> 0, sat |-> 0,
   svSBAS |-> FALSE, svGLONASS |-> FALSE, sentenceUsed |-> FALSE]

NoSatellites == [id \in {} |-> NewSatellite("", 0, SAT_TYPE_UNKNOWN)]

\* the state once initRY835AI has run and pollRY835AI has reached its loop, with
\* the AHRS enabled or not, when the clock shows now, with room for the
\* generations gens of the AHRS loops
InitOver(ahrsEnabled, now, gens) ==
  /\ stratuxClock = now
  /\ hostClock = HostStart + now
  /\ dateCalls = <<>>
  /\ globalSettings = [GPS_Enabled |-> TRUE, AHRS_Enabled |-> ahrsEnabled]
  /\ globalStatus = [GPS_connected |-> FALSE, RY835AI_connected |-> FALSE]
  /\ readyToInitGPS = TRUE
  /\ serialPort = "nil"
  /\ closing = 0
  /\ mySituation = ZeroSituation
  /\ Satellites = NoSatellites
  /\ mu_GPS = ""
  /\ mu_Attitude = ""
  /\ satelliteMutex = ""
  /\ gps = "idle"
  /\ nmea = NoCall
  /\ scanned = 0
  /\ entry = [sit |-> Project(ZeroSituation, GPSFields), sats |-> NoSatellites]
  /\ downstream = [pc |-> "idle", first |-> <<>>, snapshot |-> <<>>]
  /\ validity = [pc |-> "idle", isValid |-> FALSE]
  /\ att = [g \in gens |-> [pc |-> "idle", pitch |-> 0, roll |-> 0]]
  /\ env = [g \in gens |-> [pc |-> "idle", temp |-> 0, alt |-> 0]]
  /\ ahrsFrame = <<>>
  /\ codec = NoCodec
  /\ process = "running"

InitWith(ahrsEnabled, now) == InitOver(ahrsEnabled, now, Gens)

Init == InitWith(TRUE, 0)

(***************************************************************************)
(* The clocks.                                                             *)
(***************************************************************************)
Tick ==
  /\ stratuxClock + ClockStep <= MaxClock
  /\ stratuxClock' = stratuxClock + ClockStep
  /\ hostClock' = hostClock + ClockStep
  /\ UNCHANGED <<dateCalls, settings, codec, process, globalStatus, serial, mySituation, Satellites,
                 mutexes, parser, others, ahrs>>

(***************************************************************************)
(* pollRY835AI: one pass of its loop.                                      *)
(***************************************************************************)
\* the generations that have no goroutine of either loop
FreeGens == {g \in DOMAIN att : att[g].pc = "idle" /\ env[g].pc = "idle"}

\* PollGPS without the test of GPS_connected
PollGPSWhileConnected == globalSettings.GPS_Enabled /\ readyToInitGPS

PollGPS == globalSettings.GPS_Enabled /\ ~globalStatus.GPS_connected /\ readyToInitGPS
PollAHRS == globalSettings.AHRS_Enabled /\ ~globalStatus.RY835AI_connected

\* the device nodes initGPSSerial probes, in its order
DeviceNodes == <<"/dev/vk172", "/dev/vk162", "/dev/prolific0", "/dev/ttyAMA0">>

\* the first node of the list that exists, "" when none does
RECURSIVE FirstNode(_, _)
FirstNode(nodes, k) ==
  IF k > Len(DeviceNodes) THEN ""
  ELSE IF DeviceNodes[k] \in nodes THEN DeviceNodes[k]
  ELSE FirstNode(nodes, k + 1)

\* the p.Write calls of the u-blox configuration
UBXWrites == 22
\* the p.Write calls of the SiRF IV configuration after its re-open
SirfWrites == 6

\* initGPSSerial() on a host where the device nodes in nodes exist and the
\* k-th call of serial.OpenPort succeeds when opens[k]: what it returns, the
\* p.Write calls it makes on an open port, the p.Write calls it makes on the
\* nil port a failed OpenPort gave it (the first of them is a nil pointer
\* dereference, which ends the program), and whether it assigns serialPort.
initGPSSerial(nodes, opens) ==
  LET device == FirstNode(nodes, 1)
      isSirfIV == device = "/dev/prolific0"
      notPresent == [ret |-> FALSE, written |-> 0, unopened |-> 0, panic |-> FALSE]
  IN  IF device = "" THEN notPresent
      ELSE IF ~opens[1] THEN notPresent
      ELSE IF isSirfIV
           THEN IF ~opens[2]
                THEN [notPresent EXCEPT !.written = 1, !.unopened = 1, !.panic = TRUE]
                ELSE [notPresent EXCEPT !.written = 1 + SirfWrites, !.ret = opens[3]]
           ELSE [notPresent EXCEPT !.written = UBXWrites, !.ret = opens[2]]

\* the hosts of the model: the sets of device nodes that exist
Hosts == SUBSET {DeviceNodes[k] : k \in 1 .. Len(DeviceNodes)}
\* a host with the u-blox 7 receiver only
UbloxHosts == {{"/dev/vk172"}}
\* the outcomes of the calls of serial.OpenPort in one initGPSSerial
OpenOutcomes == [1 .. 3 -> BOOLEAN]

\* one pass of the loop on a host of hosts, with the OpenPort calls ending as
\* opens tells
Supervise(nodes, opens) ==
  /\ process = "running"
  /\ PollGPS \/ PollAHRS
  /\ PollAHRS => FreeGens # {}
  /\ \E r \in {IF PollGPS THEN initGPSSerial(nodes, opens)
               ELSE [ret |-> globalStatus.GPS_connected, written |-> 0,
                     unopened |-> 0, panic |-> FALSE]} :
       IF r.panic
       THEN /\ process' = "panic"
            /\ closing' = 0
            /\ att' = [g \in DOMAIN att |-> [att[g] EXCEPT !.pc = "idle"]]
            /\ env' = [g \in DOMAIN env |-> [env[g] EXCEPT !.pc = "idle"]]
            /\ UNCHANGED <<globalStatus, serialPort, gps>>
       ELSE /\ globalStatus' =
                 [GPS_connected |-> r.ret,
                  RY835AI_connected |-> PollAHRS \/ globalStatus.RY835AI_connected]
            /\ serialPort' = IF PollGPS /\ r.ret THEN "open" ELSE serialPort
            /\ gps' = IF PollGPS /\ r.ret THEN "start" ELSE gps
            /\ IF PollAHRS
               THEN LET g == CHOOSE h \in FreeGens : \A k \in FreeGens : h <= k
                    IN  /\ att' = [att EXCEPT ![g].pc = "loop"]
                        /\ env' = [env EXCEPT ![g].pc = "loop"]
               ELSE UNCHANGED <<att, env>>
            /\ UNCHANGED <<process, closing>>
  /\ UNCHANGED <<clocks, dateCalls, settings, codec, readyToInitGPS, mySituation,
                 Satellites, mutexes, nmea, scanned, entry, others, ahrsFrame>>

\* pollRY835AI on the RY835AI's own receiver, a u-blox
pollRY835AI == \E opens \in OpenOutcomes : \E nodes \in UbloxHosts : Supervise(nodes, opens)

(***************************************************************************)
(* gpsSerialReader and processNMEALine.  gps is "idle" when no reader      *)
(* runs, "start", "scan" and "exit" in gpsSerialReader itself, and         *)
(* "lock", "validate", "dispatch", "satloop", "satlock", "satupdate",      *)
(* "commit" and "unlock" inside its call of processNMEALine.               *)
(***************************************************************************)
\* the handler a field list is dispatched to
Kind(x) ==
  IF F(x, 0) = "PUBX"
  THEN IF F(x, 1) \in {"00", "03", "04"} THEN "PUBX" \o F(x, 1) ELSE "none"
  ELSE IF F(x, 0) \in {"GNVTG", "GPVTG"} THEN "VTG"
  ELSE IF F(x, 0) \in {"GNGGA", "GPGGA"} THEN "GGA"
  ELSE IF F(x, 0) \in {"GNRMC", "GPRMC"} THEN "RMC"
  ELSE IF F(x, 0) \in {"GNGSA", "GPGSA"} THEN "GSA"
  ELSE IF F(x, 0) \in {"GPGSV", "GLGSV"} THEN "GSV"
  ELSE "none"

\* What a handler does up to its first return, its commit or its satellite
\* loop: where processNMEALine goes next, the scratch copy, mySituation and the
\* GPS time the date command is run with, if it is run.
Dispatch(x, sit, now, host) ==
  LET kind == Kind(x)
      reject == [next |-> "unlock", tmp |-> ZeroSituation, sit |-> sit, date |-> <<>>]
      scratch(r) ==
        IF r.ok THEN [reject EXCEPT !.next = "commit", !.tmp = r.tmp] ELSE reject
  IN  IF kind = "PUBX00" THEN scratch(ParsePUBX00(x, sit, now))
      ELSE IF kind = "VTG" THEN scratch(ParseVTG(x, sit, now))
      ELSE IF kind = "GGA" THEN scratch(ParseGGA(x, sit, now))
      ELSE IF kind = "RMC"
           THEN LET r == ParseRMC(x, sit, now, host)
                IN  [scratch(r) EXCEPT !.date = r.date]
      ELSE IF kind = "PUBX04"
           THEN LET r == ParsePUBX04(x, sit, now, host)
                IN  IF r.ok THEN [reject EXCEPT !.next = "used", !.sit = r.sit,
                                                !.date = r.date]
                    ELSE reject
      ELSE IF kind = "GSA"
           THEN IF Len(x) < 18 \/ F(x, 2) \in {"", "1"} THEN reject
                ELSE [reject EXCEPT !.next = "satloop", !.tmp = sit]
      ELSE IF kind = "PUBX03"
           THEN LET satTracked == Atoi(F(x, 2))
                IN  IF Len(x) < 3 THEN reject
                    ELSE IF ~satTracked.ok \/ Len(x) < satTracked.v * 6 + 3 THEN reject
                    ELSE [reject EXCEPT
                            !.next = "satloop",
                            !.sit = [sit EXCEPT !.SatellitesTracked = Uint16(satTracked.v)]]
      ELSE IF kind = "GSV"
           THEN IF Len(x) < 4 \/ ~Atoi(F(x, 2)).ok THEN reject
                ELSE [reject EXCEPT !.next = "satloop"]
      ELSE reject

\* number of passes of a handler's satellite loop
SatCount(x) ==
  IF Kind(x) = "PUBX03" THEN Atoi(F(x, 2)).v
  ELSE IF Kind(x) = "GSV" THEN (Len(x) - 4) \div 4
  ELSE 12

\* the satellite number text pass i of the loop looks at
SvText(x, i) ==
  IF Kind(x) = "PUBX03" THEN F(x, 3 + 6 * i)
  ELSE IF Kind(x) = "GSV" THEN F(x, 4 + 4 * i)
  ELSE F(x, 3 + i)

\* the record pass i of a satellite loop stores
SatelliteRecord(x, i, sats, now, quality) ==
  IF Kind(x) = "PUBX03" THEN SatellitePUBX03(x, i, sats, now)
  ELSE IF Kind(x) = "GSV" THEN SatelliteGSV(x, i, sats, now, quality)
  ELSE SatelliteGSA(Atoi(SvText(x, i)).v, sats, now)

\* the GSA loop skips what is not a number: the first pass from i on that
\* finds one, or 12
RECURSIVE NextGSA(_, _)
NextGSA(x, i) ==
  IF i >= 12 \/ Atoi(F(x, 3 + i)).ok THEN i ELSE NextGSA(x, i + 1)

GStart ==
  /\ gps = "start"
  /\ readyToInitGPS' = FALSE
  /\ gps' = "scan"
  /\ UNCHANGED <<clocks, dateCalls, settings, codec, process, globalStatus, serialPort, closing,
                 mySituation, Satellites, mutexes, nmea, scanned, entry, others, ahrs>>

\* scanner.Scan() gives a line
GScanLine(lines) ==
  /\ gps = "scan"
  /\ scanned < MaxLines
  /\ scanned' = scanned + 1
  /\ \E l \in lines :
       IF globalStatus.GPS_connected /\ globalSettings.GPS_Enabled
       THEN gps' = "lock" /\ nmea' = [NoCall EXCEPT !.l = l]
       ELSE gps' = "exit" /\ nmea' = nmea
  /\ UNCHANGED <<clocks, dateCalls, settings, codec, process, globalStatus, serial, mySituation,
                 Satellites, mutexes, entry, others, ahrs>>

\* scanner.Scan() gives false: the port is at its end or failed
GScanEnd ==
  /\ gps = "scan"
  /\ gps' = "exit"
  /\ UNCHANGED <<clocks, dateCalls, settings, codec, process, globalStatus, serial, mySituation,
                 Satellites, mutexes, nmea, scanned, entry, others, ahrs>>

\* GExit without the signal to the supervisor
GExitWithoutSignal ==
  /\ gps = "exit"
  /\ closing < MaxClosing
  /\ globalStatus' = [globalStatus EXCEPT !.GPS_connected = FALSE]
  /\ closing' = closing + 1
  /\ gps' = "idle"
  /\ UNCHANGED <<clocks, dateCalls, settings, codec, process, readyToInitGPS, serialPort,
                 mySituation, Satellites, mutexes, nmea, scanned, entry, others, ahrs>>

GExit ==
  /\ gps = "exit"
  /\ closing < MaxClosing
  /\ globalStatus' = [globalStatus EXCEPT !.GPS_connected = FALSE]
  /\ readyToInitGPS' = TRUE
  /\ closing' = closing + 1
  /\ gps' = "idle"
  /\ UNCHANGED <<clocks, dateCalls, settings, codec, process, serialPort, mySituation, Satellites,
                 mutexes, nmea, scanned, entry, others, ahrs>>

\* the deferred serialPort.Close() of a reader that has returned.  The defer
\* statement took the port at the reader's start, so the port closed is that
\* reader's own: serialPort, the port opened last, is closed by it only when
\* no later reader holds it.
GClose ==
  /\ closing > 0
  /\ closing' = closing - 1
  /\ \/ /\ gps = "idle"
        /\ serialPort' = "closed"
     \/ /\ gps # "idle" \/ closing > 1
        /\ serialPort' = serialPort
  /\ UNCHANGED <<clocks, dateCalls, settings, codec, process, globalStatus, readyToInitGPS,
                 mySituation, Satellites, mutexes, parser, others, ahrs>>

\* PLock entering without waiting for the GPS mutex
PLockWithoutWaiting ==
  /\ gps = "lock"
  /\ mu_GPS' = "gps"
  /\ entry' = [sit |-> Project(mySituation, GPSFields), sats |-> Satellites]
  /\ gps' = "validate"
  /\ UNCHANGED <<clocks, dateCalls, settings, codec, process, globalStatus, serial, mySituation,
                 Satellites, mu_Attitude, satelliteMutex, nmea, scanned, others, ahrs>>

PLock ==
  /\ gps = "lock"
  /\ mu_GPS = ""
  /\ mu_GPS' = "gps"
  /\ entry' = [sit |-> Project(mySituation, GPSFields), sats |-> Satellites]
  /\ gps' = "validate"
  /\ UNCHANGED <<clocks, dateCalls, settings, codec, process, globalStatus, serial, mySituation,
                 Satellites, mu_Attitude, satelliteMutex, nmea, scanned, others, ahrs>>

\* PValidate recording the line before its checksum is looked at
PValidateStampingFirst ==
  /\ gps = "validate"
  /\ LET r == validateNMEAChecksum(nmea.l)
     IN  /\ gps' = IF r[2] THEN "dispatch" ELSE "unlock"
         /\ nmea' = IF r[2] THEN [nmea EXCEPT !.x = Split(r[1], ",")]
                    ELSE [nmea EXCEPT !.sentenceUsed = FALSE]
  /\ mySituation' = [mySituation EXCEPT !.LastValidNMEAMessageTime = stratuxClock,
                                        !.LastValidNMEAMessage = nmea.l]
  /\ UNCHANGED <<clocks, dateCalls, settings, codec, process, globalStatus, serial, Satellites,
                 mutexes, scanned, entry, others, ahrs>>

\* PValidate recording a valid line only after the dispatch, in the handlers
PValidateWithoutStamp ==
  /\ gps = "validate"
  /\ LET r == validateNMEAChecksum(nmea.l)
     IN  /\ gps' = IF r[2] THEN "dispatch" ELSE "unlock"
         /\ nmea' = IF r[2] THEN [nmea EXCEPT !.x = Split(r[1], ",")]
                    ELSE [nmea EXCEPT !.sentenceUsed = FALSE]
  /\ UNCHANGED <<clocks, dateCalls, settings, codec, process, globalStatus, serial, mySituation,
                 Satellites, mutexes, scanned, entry, others, ahrs>>

PValidate ==
  /\ gps = "validate"
  /\ LET r == validateNMEAChecksum(nmea.l)
     IN  IF ~r[2]
         THEN /\ gps' = "unlock"
              /\ nmea' = [nmea EXCEPT !.sentenceUsed = FALSE]
              /\ mySituation' = mySituation
         ELSE /\ gps' = "dispatch"
              /\ nmea' = [nmea EXCEPT !.x = Split(r[1], ",")]
              /\ mySituation' =
                   [mySituation EXCEPT !.LastValidNMEAMessageTime = stratuxClock,
                                       !.LastValidNMEAMessage = nmea.l]
  /\ UNCHANGED <<clocks, dateCalls, settings, codec, process, globalStatus, serial, Satellites,
                 mutexes, scanned, entry, others, ahrs>>

PDispatch ==
  /\ gps = "dispatch"
  /\ \E d \in {Dispatch(nmea.x, mySituation, stratuxClock, hostClock)} :
         /\ gps' = IF d.next = "used" THEN "unlock" ELSE d.next
         /\ nmea' = [nmea EXCEPT !.tmpSituation = d.tmp,
                                 !.sentenceUsed = (d.next = "used")]
         /\ mySituation' = d.sit
         /\ IF d.date = <<>>
            THEN UNCHANGED <<hostClock, dateCalls>>
            ELSE /\ dateCalls' = Append(dateCalls, d.date[1])
                 /\ \E ran \in BOOLEAN :
                      hostClock' = IF ran THEN d.date[1] ELSE hostClock
  /\ UNCHANGED <<stratuxClock, settings, codec, process, globalStatus, serial, Satellites, mutexes,
                 scanned, entry, others, ahrs>>

\* the head of a satellite loop, up to the lock of the satellite mutex
PSatNext ==
  /\ gps = "satloop"
  /\ LET x == nmea.x
         i == IF Kind(x) = "GSA" THEN NextGSA(x, nmea.i) ELSE nmea.i
     IN  IF i >= SatCount(x)
         THEN IF Kind(x) = "GSA"
              THEN LET r == FinishGSA(x, nmea.tmpSituation, nmea.sat, nmea.svSBAS,
                                      nmea.svGLONASS)
                   IN  IF r.ok
                       THEN gps' = "commit" /\ nmea' = [nmea EXCEPT !.tmpSituation = r.tmp]
                       ELSE gps' = "unlock" /\ nmea' = [nmea EXCEPT !.sentenceUsed = FALSE]
              ELSE gps' = "unlock" /\ nmea' = [nmea EXCEPT !.sentenceUsed = TRUE]
         ELSE IF ~Atoi(SvText(x, i)).ok
         THEN gps' = "unlock" /\ nmea' = [nmea EXCEPT !.sentenceUsed = FALSE]
         ELSE LET sv == Atoi(SvText(x, i)).v
              IN  /\ gps' = "satlock"
                  /\ nmea' =
                       IF Kind(x) = "GSA"
                       THEN [nmea EXCEPT
                               !.i = i, !.sat = @ + 1,
                               !.svSBAS = @ \/ SatIdNMEA(sv).type = SAT_TYPE_SBAS,
                               !.svGLONASS = @ \/ SatIdNMEA(sv).type = SAT_TYPE_GLONASS]
                       ELSE [nmea EXCEPT !.i = i]
  /\ UNCHANGED <<clocks, dateCalls, settings, codec, process, globalStatus, serial, mySituation,
                 Satellites, mutexes, scanned, entry, others, ahrs>>

PSatLock ==
  /\ gps = "satlock"
  /\ satelliteMutex = ""
  /\ satelliteMutex' = "gps"
  /\ gps' = "satupdate"
  /\ UNCHANGED <<clocks, dateCalls, settings, codec, process, globalStatus, serial, mySituation,
                 Satellites, mu_GPS, mu_Attitude, nmea, scanned, entry, others, ahrs>>

\* PSatUpdate leaving the protected block without releasing the satellite mutex
PSatUpdateKeepingMutex ==
  /\ gps = "satupdate"
  /\ LET stored == Store(Satellites, SatelliteRecord(nmea.x, nmea.i, Satellites,
                                                     stratuxClock, mySituation.Quality))
     IN  /\ Satellites' = ConstellationAfter(stored, stratuxClock)
         /\ mySituation' = SituationAfterConstellation(mySituation, stored, stratuxClock)
  /\ nmea' = [nmea EXCEPT !.i = @ + 1]
  /\ gps' = "satloop"
  /\ UNCHANGED <<clocks, dateCalls, settings, codec, process, globalStatus, serial, mutexes,
                 scanned, entry, others, ahrs>>

\* the protected block: the record is stored, updateConstellation runs and the
\* satellite mutex is released
PSatUpdate ==
  /\ gps = "satupdate"
  /\ LET stored == Store(Satellites, SatelliteRecord(nmea.x, nmea.i, Satellites,
                                                     stratuxClock, mySituation.Quality))
     IN  /\ Satellites' = ConstellationAfter(stored, stratuxClock)
         /\ mySituation' = SituationAfterConstellation(mySituation, stored, stratuxClock)
  /\ satelliteMutex' = ""
  /\ nmea' = [nmea EXCEPT !.i = @ + 1]
  /\ gps' = "satloop"
  /\ UNCHANGED <<clocks, dateCalls, settings, codec, process, globalStatus, serial, mu_GPS,
                 mu_Attitude, scanned, entry, others, ahrs>>

\* mySituation = tmpSituation; return true
PCommit ==
  /\ gps = "commit"
  /\ mySituation' = nmea.tmpSituation
  /\ nmea' = [nmea EXCEPT !.sentenceUsed = TRUE]
  /\ gps' = "unlock"
  /\ UNCHANGED <<clocks, dateCalls, settings, codec, process, globalStatus, serial, Satellites,
                 mutexes, scanned, entry, others, ahrs>>

\* PUnlock returning with the GPS mutex still held
PReturnWithoutUnlock ==
  /\ gps = "unlock"
  /\ nmea' = [NoCall EXCEPT !.l = nmea.l, !.sentenceUsed = nmea.sentenceUsed]
  /\ gps' = "scan"
  /\ UNCHANGED <<clocks, dateCalls, settings, codec, process, globalStatus, serial, mySituation,
                 Satellites, mutexes, scanned, entry, others, ahrs>>

\* the deferred function: the GPS mutex is released and the call returns
PUnlock ==
  /\ gps = "unlock"
  /\ mu_GPS' = ""
  /\ nmea' = [NoCall EXCEPT !.l = nmea.l, !.sentenceUsed = nmea.sentenceUsed]
  /\ gps' = "scan"
  /\ UNCHANGED <<clocks, dateCalls, settings, codec, process, globalStatus, serial, mySituation,
                 Satellites, mu_Attitude, satelliteMutex, scanned, entry, others, ahrs>>

(***************************************************************************)
(* A downstream module: it takes the GPS mutex, copies the GPS sub-record  *)
(* in two reads and releases the mutex.                                    *)
(***************************************************************************)
FirstRead ==
  {"Lat", "Lng", "Quality", "Alt", "LastFixLocalTime", "LastFixSinceMidnightUTC",
   "Satellites", "LastValidNMEAMessageTime"}

DLock ==
  /\ downstream.pc = "idle"
  /\ mu_GPS = ""
  /\ mu_GPS' = "downstream"
  /\ downstream' = [pc |-> "first", first |-> <<>>, snapshot |-> <<>>]
  /\ UNCHANGED <<clocks, dateCalls, settings, codec, process, globalStatus, serial, mySituation,
                 Satellites, mu_Attitude, satelliteMutex, parser, validity, ahrs>>

DFirst ==
  /\ downstream.pc = "first"
  /\ downstream' = [downstream EXCEPT !.pc = "second",
                                      !.first = Project(mySituation, FirstRead)]
  /\ UNCHANGED <<clocks, dateCalls, settings, codec, process, globalStatus, serial, mySituation,
                 Satellites, mutexes, parser, validity, ahrs>>

DSecond ==
  /\ downstream.pc = "second"
  /\ downstream' =
       [downstream EXCEPT
          !.pc = "unlock",
          !.snapshot = [f \in GPSFields |->
                          IF f \in FirstRead THEN downstream.first[f]
                          ELSE mySituation[f]]]
  /\ UNCHANGED <<clocks, dateCalls, settings, codec, process, globalStatus, serial, mySituation,
                 Satellites, mutexes, parser, validity, ahrs>>

DUnlock ==
  /\ downstream.pc = "unlock"
  /\ mu_GPS' = ""
  /\ downstream' = [pc |-> "idle", first |-> <<>>, snapshot |-> <<>>]
  /\ UNCHANGED <<clocks, dateCalls, settings, codec, process, globalStatus, serial, mySituation,
                 Satellites, mu_Attitude, satelliteMutex, parser, validity, ahrs>>

(***************************************************************************)
(* A caller of isGPSValid.  The three operands of the condition are read   *)
(* one after the other, and the two fields are zeroed one after the other. *)
(***************************************************************************)
VSince ==
  /\ validity.pc = "idle"
  /\ validity' =
       IF Since(stratuxClock, mySituation.LastFixLocalTime) < ValidSeconds
       THEN [pc |-> "connected", isValid |-> FALSE]
       ELSE [pc |-> "zeroQuality", isValid |-> FALSE]
  /\ UNCHANGED <<clocks, dateCalls, settings, codec, process, globalStatus, serial, mySituation,
                 Satellites, mutexes, parser, downstream, ahrs>>

VConnected ==
  /\ validity.pc = "connected"
  /\ validity' = [validity EXCEPT !.pc = IF globalStatus.GPS_connected THEN "quality"
                                         ELSE "zeroQuality"]
  /\ UNCHANGED <<clocks, dateCalls, settings, codec, process, globalStatus, serial, mySituation,
                 Satellites, mutexes, parser, downstream, ahrs>>

VQuality ==
  /\ validity.pc = "quality"
  /\ validity' = IF mySituation.Quality > 0 THEN [pc |-> "return", isValid |-> TRUE]
                 ELSE [pc |-> "zeroQuality", isValid |-> FALSE]
  /\ UNCHANGED <<clocks, dateCalls, settings, codec, process, globalStatus, serial, mySituation,
                 Satellites, mutexes, parser, downstream, ahrs>>

VZeroQuality ==
  /\ validity.pc = "zeroQuality"
  /\ mySituation' = [mySituation EXCEPT !.Quality = 0]
  /\ validity' = [validity EXCEPT !.pc = "zeroSatellites"]
  /\ UNCHANGED <<clocks, dateCalls, settings, codec, process, globalStatus, serial, Satellites,
                 mutexes, parser, downstream, ahrs>>

VZeroSatellites ==
  /\ validity.pc = "zeroSatellites"
  /\ mySituation' = [mySituation EXCEPT !.Satellites = 0]
  /\ validity' = [validity EXCEPT !.pc = "return"]
  /\ UNCHANGED <<clocks, dateCalls, settings, codec, process, globalStatus, serial, Satellites,
                 mutexes, parser, downstream, ahrs>>

VReturn ==
  /\ validity.pc = "return"
  /\ validity' = [validity EXCEPT !.pc = "idle"]
  /\ UNCHANGED <<clocks, dateCalls, settings, codec, process, globalStatus, serial, mySituation,
                 Satellites, mutexes, parser, downstream, ahrs>>

(***************************************************************************)
(* attitudeReaderSender, generation g.                                     *)
(***************************************************************************)
AttTask(g) == "att" \o Itoa(g)

AttLoop(g) ==
  /\ att[g].pc = "loop"
  /\ att' = [att EXCEPT ![g].pc =
               IF globalStatus.RY835AI_connected /\ globalSettings.AHRS_Enabled
               THEN "read" ELSE "exit"]
  /\ UNCHANGED <<clocks, dateCalls, settings, codec, process, globalStatus, serial, mySituation,
                 Satellites, mutexes, parser, others, env, ahrsFrame>>

\* mpu.ReadMPURaw fails: continue
AttReadError(g) ==
  /\ att[g].pc = "read"
  /\ att' = [att EXCEPT ![g].pc = "loop"]
  /\ UNCHANGED <<clocks, dateCalls, settings, codec, process, globalStatus, serial, mySituation,
                 Satellites, mutexes, parser, others, env, ahrsFrame>>

\* mpu.ReadMPURaw, AHRSupdate and GetCurrentAttitudeXY give a pitch and a roll
AttRead(g) ==
  /\ att[g].pc = "read"
  /\ \E smp \in AttitudeSamples :
       att' = [att EXCEPT ![g] = [pc |-> "lock", pitch |-> smp[1], roll |-> smp[2]]]
  /\ UNCHANGED <<clocks, dateCalls, settings, codec, process, globalStatus, serial, mySituation,
                 Satellites, mutexes, parser, others, env, ahrsFrame>>

AttLock(g) ==
  /\ att[g].pc = "lock"
  /\ mu_Attitude = ""
  /\ mu_Attitude' = AttTask(g)
  /\ att' = [att EXCEPT ![g].pc = "store"]
  /\ UNCHANGED <<clocks, dateCalls, settings, codec, process, globalStatus, serial, mySituation,
                 Satellites, mu_GPS, satelliteMutex, parser, others, env, ahrsFrame>>

AttStore(g) ==
  /\ att[g].pc = "store"
  /\ mySituation' = [mySituation EXCEPT !.Pitch = att[g].pitch,
                                        !.Roll = att[g].roll,
                                        !.LastAttitudeTime = stratuxClock]
  /\ att' = [att EXCEPT ![g].pc = "send"]
  /\ UNCHANGED <<clocks, dateCalls, settings, codec, process, globalStatus, serial, Satellites,
                 mutexes, parser, others, env, ahrsFrame>>

\* the roll, pitch and heading of the frame: tenths of a degree as int16 and uint16
makeAHRSGDL90Report(sit) ==
  <<Int16(Quot(sit.Roll, 100)), Int16(Quot(sit.Pitch, 100)),
    Uint16(Quot(sit.Gyro_heading, 100))>>

\* makeAHRSGDL90Report(): the frame is built and handed to sendMsg
AttSend(g) ==
  /\ att[g].pc = "send"
  /\ ahrsFrame' = makeAHRSGDL90Report(mySituation)
  /\ att' = [att EXCEPT ![g].pc = "unlock"]
  /\ UNCHANGED <<clocks, dateCalls, settings, codec, process, globalStatus, serial, mySituation,
                 Satellites, mutexes, parser, others, env>>

AttUnlock(g) ==
  /\ att[g].pc = "unlock"
  /\ mu_Attitude' = ""
  /\ att' = [att EXCEPT ![g] = [pc |-> "loop", pitch |-> 0, roll |-> 0]]
  /\ UNCHANGED <<clocks, dateCalls, settings, codec, process, globalStatus, serial, mySituation,
                 Satellites, mu_GPS, satelliteMutex, parser, others, env, ahrsFrame>>

AttExit(g) ==
  /\ att[g].pc = "exit"
  /\ globalStatus' = [globalStatus EXCEPT !.RY835AI_connected = FALSE]
  /\ att' = [att EXCEPT ![g].pc = "idle"]
  /\ UNCHANGED <<clocks, dateCalls, settings, codec, process, serial, mySituation, Satellites,
                 mutexes, parser, others, env, ahrsFrame>>

(***************************************************************************)
(* tempAndPressureReader, generation g.                                    *)
(***************************************************************************)
EnvLoop(g) ==
  /\ env[g].pc = "loop"
  /\ env' = [env EXCEPT ![g].pc =
               IF globalStatus.RY835AI_connected /\ globalSettings.AHRS_Enabled
               THEN "read" ELSE "exit"]
  /\ UNCHANGED <<clocks, dateCalls, settings, codec, process, globalStatus, serial, mySituation,
                 Satellites, mutexes, parser, others, att, ahrsFrame>>

\* readBMP180 fails
EnvReadError(g) ==
  /\ env[g].pc = "read"
  /\ globalStatus' = [globalStatus EXCEPT !.RY835AI_connected = FALSE]
  /\ env' = [env EXCEPT ![g].pc = "loop"]
  /\ UNCHANGED <<clocks, dateCalls, settings, codec, process, serial, mySituation, Satellites,
                 mutexes, parser, others, att, ahrsFrame>>

\* readBMP180 gives a temperature and an altitude
EnvRead(g) ==
  /\ env[g].pc = "read"
  /\ \E smp \in BaroSamples :
       env' = [env EXCEPT ![g] = [pc |-> "store", temp |-> smp[1], alt |-> smp[2]]]
  /\ UNCHANGED <<clocks, dateCalls, settings, codec, process, globalStatus, serial, mySituation,
                 Satellites, mutexes, parser, others, att, ahrsFrame>>

EnvStore(g) ==
  /\ env[g].pc = "store"
  /\ mySituation' = [mySituation EXCEPT !.Temp = env[g].temp,
                                        !.Pressure_alt = env[g].alt,
                                        !.LastTempPressTime = stratuxClock]
  /\ env' = [env EXCEPT ![g] = [pc |-> "loop", temp |-> 0, alt |-> 0]]
  /\ UNCHANGED <<clocks, dateCalls, settings, codec, process, globalStatus, serial, Satellites,
                 mutexes, parser, others, att, ahrsFrame>>

EnvExit(g) ==
  /\ env[g].pc = "exit"
  /\ globalStatus' = [globalStatus EXCEPT !.RY835AI_connected = FALSE]
  /\ env' = [env EXCEPT ![g].pc = "idle"]
  /\ UNCHANGED <<clocks, dateCalls, settings, codec, process, serial, mySituation, Satellites,
                 mutexes, parser, others, att, ahrsFrame>>

(***************************************************************************)
(* The specifications.                                                     *)
(***************************************************************************)
\* gpsSerialReader on the lines of a set
Reader(lines) ==
  \/ GStart \/ GScanLine(lines) \/ GScanEnd \/ GExit \/ GClose
  \/ PLock \/ PValidate \/ PDispatch \/ PSatNext \/ PSatLock \/ PSatUpdate
  \/ PCommit \/ PUnlock

Downstream == DLock \/ DFirst \/ DSecond \/ DUnlock

Validity == VSince \/ VConnected \/ VQuality \/ VZeroQuality \/ VZeroSatellites \/ VReturn

Attitude ==
  \E g \in Gens :
    \/ AttLoop(g) \/ AttReadError(g) \/ AttRead(g) \/ AttLock(g) \/ AttStore(g)
    \/ AttSend(g) \/ AttUnlock(g) \/ AttExit(g)

Environment ==
  \E g \in Gens : EnvLoop(g) \/ EnvReadError(g) \/ EnvRead(g) \/ EnvStore(g) \/ EnvExit(g)

Next ==
  \/ Tick \/ pollRY835AI \/ Reader(LinesSpec) \/ Downstream \/ Validity
  \/ Attitude \/ Environment

Spec == Init /\ [][Next]_vars

\* the tasks that use the GPS sub-record, with the AHRS disabled
NextGPS == Tick \/ pollRY835AI \/ Reader(LinesGPS) \/ Downstream \/ Validity

SpecGPS == InitWith(FALSE, 0) /\ [][NextGPS]_vars

\* the serial reader and the two AHRS loops
NextAHRS == Tick \/ pollRY835AI \/ Reader(LinesAHRS) \/ Attitude \/ Environment

\* pollRY835AI makes its first pass when the clock is one step from its end
InitAHRS == InitWith(TRUE, MaxClock - ClockStep)

SpecAHRS == InitAHRS /\ [][NextAHRS]_vars

\* the parser alone, on every line
InitParser == InitWith(FALSE, 0)

NextParser == Tick \/ pollRY835AI \/ Reader(LinesParser)

SpecParser == InitParser /\ [][NextParser]_vars

\* The parser with time going on: the clock advances and the reader takes
\* every step of its own that it can take, while the serial port is free to
\* deliver a line or to stay silent.
LinesLifecycle == {Framed(PUBX03One), Framed(GGAFix)}

NextLifecycle == Tick \/ pollRY835AI \/ Reader(LinesLifecycle)

\* The reader goroutine is scheduled: it takes every step of its own that it
\* can take.  No fairness is stated of GScanLine and GScanEnd, the two steps
\* that wait for the serial port.
ReaderRuns ==
  /\ WF_vars(pollRY835AI) /\ WF_vars(GStart) /\ WF_vars(GExit) /\ WF_vars(GClose)
  /\ WF_vars(PLock) /\ WF_vars(PSatNext) /\ WF_vars(PSatLock)
  /\ WF_vars(PSatUpdate) /\ WF_vars(PCommit) /\ WF_vars(PUnlock)

\* PValidate and PDispatch are enabled exactly where the reader stands before
\* them and always leave that place, so weak fairness of each is that the
\* reader does not stand there for ever.
ParserRuns == []<>(gps # "validate") /\ []<>(gps # "dispatch")

SpecLifecycle ==
  InitParser /\ [][NextLifecycle]_vars /\ WF_vars(Tick) /\ ReaderRuns /\ ParserRuns

(***************************************************************************)
(* updateConstellation on its own.  The maps it is run on are those a      *)
(* handler can have stored: a block of records tracked just now, one       *)
(* record of any age, and one record that is or is not stale.              *)
(***************************************************************************)
\* the ages a record of a drawn map can have
Ages ==
  {0, SolutionSeconds, SolutionSeconds + 1, TrackedSeconds, TrackedSeconds + 1}

\* a record as a handler leaves it, by the age of its two time stamps
Aged(id, sv, now, tracked, solution, inSolution, signal) ==
  [NewSatellite(id, sv, SAT_TYPE_UNKNOWN) EXCEPT
     !.TimeLastTracked = now - tracked, !.TimeLastSeen = now - tracked,
     !.TimeLastSolution = now - solution, !.InSolution = inSolution,
     !.Signal = signal]

\* n records U1001, U1002, ... tracked and last in solution just now
Block(n, now, inSolution, signal) ==
  [id \in {"U" \o Itoa(1000 + k) : k \in 1..n} |->
     Aged(id, 0, now, 0, 0, inSolution, signal)]

\* the state in the protected block of a handler, at its call of
\* updateConstellation
InitConstellation ==
  /\ stratuxClock = MaxClock
  /\ hostClock = HostStart + MaxClock
  /\ dateCalls = <<>>
  /\ globalSettings = [GPS_Enabled |-> TRUE, AHRS_Enabled |-> FALSE]
  /\ globalStatus = [GPS_connected |-> TRUE, RY835AI_connected |-> FALSE]
  /\ readyToInitGPS = FALSE
  /\ serialPort = "open"
  /\ closing = 0
  /\ mySituation = ZeroSituation
  /\ \E n \in {0, 1, MaxRecords - 1, MaxRecords}, inSolution \in BOOLEAN,
        signal \in {0, 40}, tracked \in Ages, solution \in Ages,
        probeIn \in BOOLEAN, other \in {TrackedSeconds, TrackedSeconds + 1} :
       Satellites =
         Store(Store(Block(n, MaxClock, inSolution, signal),
                     Aged("G5", 5, MaxClock, tracked, solution, probeIn, 40)),
               Aged("R1", 65, MaxClock, other, 0, TRUE, 0))
  /\ mu_GPS = "gps"
  /\ mu_Attitude = ""
  /\ satelliteMutex = "gps"
  /\ gps = "constellation"
  /\ nmea = NoCall
  /\ scanned = 1
  /\ entry = [sit |-> Project(ZeroSituation, GPSFields), sats |-> NoSatellites]
  /\ downstream = [pc |-> "idle", first |-> <<>>, snapshot |-> <<>>]
  /\ validity = [pc |-> "idle", isValid |-> FALSE]
  /\ att = [g \in Gens |-> [pc |-> "idle", pitch |-> 0, roll |-> 0]]
  /\ env = [g \in Gens |-> [pc |-> "idle", temp |-> 0, alt |-> 0]]
  /\ ahrsFrame = <<>>
  /\ codec = NoCodec
  /\ process = "running"

\* updateConstellation, from its call to its return; entry keeps the map it
\* was called on
updateConstellation ==
  /\ gps = "constellation"
  /\ Satellites' = ConstellationAfter(Satellites, stratuxClock)
  /\ mySituation' = SituationAfterConstellation(mySituation, Satellites, stratuxClock)
  /\ entry' = [entry EXCEPT !.sats = Satellites]
  /\ gps' = "tracked"
  /\ UNCHANGED <<clocks, dateCalls, settings, codec, process, globalStatus, serial, mutexes, nmea,
                 scanned, others, ahrs>>

SpecConstellation == InitConstellation /\ [][updateConstellation]_vars

(***************************************************************************)
(* The frame builders by themselves: makeNMEACmd on every command of up to *)
(* MaxPayload characters with validateNMEAChecksum applied to what it      *)
(* returns, and makeUBXCFG on messages of up to MaxPayload bytes.          *)
(***************************************************************************)
\* characters of a command: a digit, letters of both cases, two separators
CommandChars == {"0", "A", "a", "P", ",", "-"}

\* the strings of at most n characters of CommandChars
RECURSIVE Commands(_)
Commands(n) ==
  IF n = 0 THEN {""}
  ELSE Commands(n - 1) \cup {w \o c : w \in Commands(n - 1), c \in CommandChars}

\* bytes of a message: the least, the greatest, and the one of the sign bit
MessageBytes == {0, 128, 255}

\* the byte sequences of at most n bytes of MessageBytes
RECURSIVE Messages(_)
Messages(n) ==
  IF n = 0 THEN {<<>>}
  ELSE Messages(n - 1) \cup {Append(m, b) : m \in Messages(n - 1), b \in MessageBytes}

\* class and id bytes, and lengths that do and do not fit one byte
Classes == {6, 255}
Ids == {0, 62}
Lengths == {0, 2, 256, 65535}

InitCodec ==
  /\ stratuxClock = 0
  /\ hostClock = HostStart
  /\ dateCalls = <<>>
  /\ globalSettings = [GPS_Enabled |-> TRUE, AHRS_Enabled |-> FALSE]
  /\ globalStatus = [GPS_connected |-> FALSE, RY835AI_connected |-> FALSE]
  /\ readyToInitGPS = TRUE
  /\ serialPort = "nil"
  /\ closing = 0
  /\ mySituation = ZeroSituation
  /\ Satellites = NoSatellites
  /\ mu_GPS = ""
  /\ mu_Attitude = ""
  /\ satelliteMutex = ""
  /\ gps = "idle"
  /\ nmea = NoCall
  /\ scanned = 0
  /\ entry = [sit |-> Project(ZeroSituation, GPSFields), sats |-> NoSatellites]
  /\ downstream = [pc |-> "idle", first |-> <<>>, snapshot |-> <<>>]
  /\ validity = [pc |-> "idle", isValid |-> FALSE]
  /\ att = [g \in Gens |-> [pc |-> "idle", pitch |-> 0, roll |-> 0]]
  /\ env = [g \in Gens |-> [pc |-> "idle", temp |-> 0, alt |-> 0]]
  /\ ahrsFrame = <<>>
  /\ process = "running"
  /\ \/ \E cmd \in Commands(MaxPayload) :
           codec = [op |-> "makeNMEACmd", args |-> <<cmd>>, ret |-> <<>>, back |-> <<>>]
     \/ \E class \in Classes, id \in Ids, msglen \in Lengths,
           msg \in Messages(MaxPayload) :
           codec = [op |-> "makeUBXCFG", args |-> <<class, id, msglen, msg>>,
                    ret |-> <<>>, back |-> <<>>]

\* everything but codec
program ==
  <<clocks, dateCalls, settings, process, globalStatus, serial, mySituation, Satellites,
    mutexes, parser, others, ahrs>>

\* makeNMEACmd(cmd) returns
CallMakeNMEACmd ==
  /\ codec.op = "makeNMEACmd"
  /\ codec.ret = <<>>
  /\ codec' = [codec EXCEPT !.ret = <<makeNMEACmd(codec.args[1])>>]
  /\ UNCHANGED program

\* validateNMEAChecksum returns, called with what makeNMEACmd returned
CallValidateNMEAChecksum ==
  /\ codec.op = "makeNMEACmd"
  /\ codec.ret # <<>>
  /\ codec.back = <<>>
  /\ codec' = [codec EXCEPT !.back = validateNMEAChecksum(codec.ret[1])]
  /\ UNCHANGED program

\* makeUBXCFG(class, id, msglen, msg) returns
CallMakeUBXCFG ==
  /\ codec.op = "makeUBXCFG"
  /\ codec.ret = <<>>
  /\ codec' = [codec EXCEPT !.ret = <<makeUBXCFG(codec.args[1], codec.args[2],
                                                  codec.args[3], codec.args[4])>>]
  /\ UNCHANGED program

NextCodec == CallMakeNMEACmd \/ CallValidateNMEAChecksum \/ CallMakeUBXCFG

SpecCodec == InitCodec /\ [][NextCodec]_vars

(***************************************************************************)
(* The parser on sentences about satellites, from the state the reader is  *)
(* in when it has handled a GGA sentence of a differential fix.            *)
(***************************************************************************)
LinesSatellites ==
  {Framed(pl) : pl \in {GSASeven, GSAGlonass, GSAWaas, GSVWaasWeak, GSVWaasStrong,
                        PUBX03Waas, GGAFix}}

InitDifferential ==
  /\ stratuxClock = 0
  /\ hostClock = HostStart
  /\ dateCalls = <<>>
  /\ globalSettings = [GPS_Enabled |-> TRUE, AHRS_Enabled |-> FALSE]
  /\ globalStatus = [GPS_connected |-> TRUE, RY835AI_connected |-> FALSE]
  /\ readyToInitGPS = FALSE
  /\ serialPort = "open"
  /\ closing = 0
  /\ mySituation =
       ParseGGA(Split(GGADiff, ","),
                [ZeroSituation EXCEPT !.LastValidNMEAMessage = Framed(GGADiff)], 0).tmp
  /\ Satellites = NoSatellites
  /\ mu_GPS = ""
  /\ mu_Attitude = ""
  /\ satelliteMutex = ""
  /\ gps = "scan"
  /\ nmea = [NoCall EXCEPT !.l = Framed(GGADiff), !.sentenceUsed = TRUE]
  /\ scanned = 0
  /\ entry = [sit |-> Project(ZeroSituation, GPSFields), sats |-> NoSatellites]
  /\ downstream = [pc |-> "idle", first |-> <<>>, snapshot |-> <<>>]
  /\ validity = [pc |-> "idle", isValid |-> FALSE]
  /\ att = [g \in Gens |-> [pc |-> "idle", pitch |-> 0, roll |-> 0]]
  /\ env = [g \in Gens |-> [pc |-> "idle", temp |-> 0, alt |-> 0]]
  /\ ahrsFrame = <<>>
  /\ codec = NoCodec
  /\ process = "running"

NextSatellites == Tick \/ pollRY835AI \/ Reader(LinesSatellites)

SpecSatellites == InitDifferential /\ [][NextSatellites]_vars

(***************************************************************************)
(* The opener on any host: the supervisor, the clock and the serial reader *)
(* where any of the probed device nodes may exist and any call of          *)
(* serial.OpenPort may fail.                                               *)
(***************************************************************************)
pollAnyHost == \E nodes \in Hosts : \E opens \in OpenOutcomes : Supervise(nodes, opens)

NextOpener == Tick \/ pollAnyHost \/ Reader(LinesLifecycle)

SpecOpener == InitParser /\ [][NextOpener]_vars

(***************************************************************************)
(* The AHRS subsystem alone: the supervisor and the two loops initAHRS     *)
(* starts.  Each task that can take a step takes one in the end; whether a *)
(* read of the bus fails is the bus's choice.                              *)
(***************************************************************************)
AttitudeOf(g) ==
  \/ AttLoop(g) \/ AttReadError(g) \/ AttRead(g) \/ AttLock(g) \/ AttStore(g)
  \/ AttSend(g) \/ AttUnlock(g) \/ AttExit(g)

EnvironmentOf(g) ==
  EnvLoop(g) \/ EnvReadError(g) \/ EnvRead(g) \/ EnvStore(g) \/ EnvExit(g)

NextSensors == Tick \/ pollRY835AI \/ Attitude \/ Environment

SensorsRun ==
  /\ WF_vars(Tick)
  /\ WF_vars(pollRY835AI)
  /\ \A g \in Gens : WF_vars(AttitudeOf(g)) /\ WF_vars(EnvironmentOf(g))

SpecSensors == Init /\ [][NextSensors]_vars /\ SensorsRun

(***************************************************************************)
(* The settings.  GPS_Enabled and AHRS_Enabled are written by the rest of  *)
(* the program at any time; the tasks of this file only read them.         *)
(***************************************************************************)
SetGPSEnabled ==
  /\ globalSettings' = [globalSettings EXCEPT !.GPS_Enabled = ~@]
  /\ UNCHANGED <<clocks, dateCalls, codec, process, globalStatus, serial, mySituation,
                 Satellites, mutexes, parser, others, ahrs>>

SetAHRSEnabled ==
  /\ globalSettings' = [globalSettings EXCEPT !.AHRS_Enabled = ~@]
  /\ UNCHANGED <<clocks, dateCalls, codec, process, globalStatus, serial, mySituation,
                 Satellites, mutexes, parser, others, ahrs>>

\* the supervisor and the serial reader while GPS_Enabled is switched
NextSwitchedGPS == Tick \/ pollRY835AI \/ Reader(LinesLifecycle) \/ SetGPSEnabled

SpecSwitchedGPS == InitParser /\ [][NextSwitchedGPS]_vars

(***************************************************************************)
(* The AHRS subsystem where the supervisor can initialise it again while   *)
(* loops of an earlier initAHRS still exist, and AHRS_Enabled is switched. *)
(***************************************************************************)
Respawns == 1 .. MaxRespawn

InitRespawn == InitOver(TRUE, 0, Respawns)

NextRespawn ==
  \/ Tick \/ pollRY835AI \/ SetAHRSEnabled
  \/ \E g \in Respawns : AttitudeOf(g)
  \/ \E g \in Respawns : EnvironmentOf(g)

SpecRespawn == InitRespawn /\ [][NextRespawn]_vars

(***************************************************************************)
(* The tasks that take a mutex: the serial reader on sentences with a      *)
(* satellite loop, some rejected inside the loop, the two AHRS loops and a *)
(* downstream reader of the GPS sub-record.                                *)
(***************************************************************************)
LinesLocks == {Framed(GSVBadSecond), Framed(PUBX03BadId), Framed(GSAOne)}

NextLocks == pollRY835AI \/ Reader(LinesLocks) \/ Attitude \/ Environment \/ Downstream

SpecLocks == Init /\ [][NextLocks]_vars

\* The parser on sentences that report a ground track, moving and nearly
\* still, and on sentences of other types.
LinesCourse ==
  {Framed(pl) : pl \in {VTGMoving, VTGThree, RMCFix, RMCSlow, PUBX00Fix,
                        PUBX00Slow, GGAFix, GSAOne, PUBX04Clock}}

NextCourse == Tick \/ pollRY835AI \/ Reader(LinesCourse)

SpecCourse == InitParser /\ [][NextCourse]_vars

(***************************************************************************)
(* What the properties below speak of.                                     *)
(***************************************************************************)
\* processNMEALine has been entered and has not returned
InCall ==
  gps \in {"validate", "dispatch", "satloop", "satlock", "satupdate", "commit", "unlock"}

\* a step of processNMEALine, its wait for the GPS mutex included
NMEAStep == (gps = "lock" \/ InCall) /\ gps' # gps

\* isGPSConnected() for a situation and a clock
isGPSConnectedAt(sit, now) == Since(now, sit.LastValidNMEAMessageTime) < ConnectedSeconds

isGPSConnected == isGPSConnectedAt(mySituation, stratuxClock)

\* the fields a handler assigns, itself or through updateConstellation
Counters == {"Satellites", "SatellitesTracked", "SatellitesSeen"}

WriteSet(kind) ==
  {"LastValidNMEAMessageTime", "LastValidNMEAMessage"} \cup
  (IF kind = "PUBX00"
   THEN {"Quality", "Accuracy", "NACp", "AccuracyVert", "LastFixSinceMidnightUTC", "Lat",
         "Lng", "Alt", "HeightAboveEllipsoid", "LastFixLocalTime", "GroundSpeed",
         "TrueCourse", "LastGroundTrackTime", "GPSVertVel", "Satellites"}
   ELSE IF kind = "VTG" THEN {"GroundSpeed", "TrueCourse", "LastGroundTrackTime"}
   ELSE IF kind = "GGA"
   THEN {"Quality", "LastFixSinceMidnightUTC", "Lat", "Lng", "Alt", "GeoidSep",
         "HeightAboveEllipsoid", "LastFixLocalTime"}
   ELSE IF kind = "RMC"
   THEN {"LastFixSinceMidnightUTC", "LastGPSTimeTime", "GPSTime", "Lat", "Lng",
         "LastFixLocalTime", "GroundSpeed", "TrueCourse", "LastGroundTrackTime"}
   ELSE IF kind = "GSA" THEN {"Accuracy", "NACp", "AccuracyVert"} \cup Counters
   ELSE IF kind \in {"PUBX03", "GSV"} THEN Counters
   ELSE IF kind = "PUBX04" THEN {"LastGPSTimeTime", "GPSTime", "LastFixSinceMidnightUTC"}
   ELSE {})

\* the GPS fields a step changes
Changed == {f \in GPSFields : mySituation'[f] # mySituation[f]}

\* the fields of the attitude sub-record the two AHRS loops write
LoopFields ==
  {"Pitch", "Roll", "LastAttitudeTime", "Temp", "Pressure_alt", "LastTempPressTime"}

\* the mutexes a task holds
Held(task) ==
  {m \in {"mu_GPS", "mu_Attitude", "satelliteMutex"} :
     \/ m = "mu_GPS" /\ mu_GPS = task
     \/ m = "mu_Attitude" /\ mu_Attitude = task
     \/ m = "satelliteMutex" /\ satelliteMutex = task}

Tasks == {"gps", "downstream", "validity"} \cup {AttTask(g) : g \in Gens}

(***************************************************************************)
(* The properties.                                                         *)
(***************************************************************************)
\* C1: while a downstream reader holds the GPS mutex processNMEALine takes no
\* step, and every step of processNMEALine that changes a GPS field is taken
\* with the GPS mutex held by it, so the reader's copy lies wholly before or
\* wholly after a sentence; and a GPS field that a step of processNMEALine
\* changes is a field the sentence's handler assigns or gets back the value it
\* had when the call was entered.
C1_SentenceIsAtomicForReaders ==
  [][/\ mu_GPS = "downstream" => ~NMEAStep
     /\ (NMEAStep /\ Changed # {}) =>
          /\ mu_GPS = "gps"
          /\ \A f \in Changed :
               f \in WriteSet(Kind(nmea'.x)) \/ mySituation'[f] = entry.sit[f]]_vars

\* C1: a reader holds the mutex with a copy that shows an accepted fix while the
\* serial reader waits with the next line
C1_Witness ==
  /\ downstream.pc = "unlock"
  /\ downstream.snapshot.Quality = 1
  /\ downstream.snapshot.Lat = mySituation.Lat
  /\ gps = "lock"

\* C2: when processNMEALine is about to return false for a line whose checksum
\* is valid, every GPS field but LastValidNMEAMessageTime and
\* LastValidNMEAMessage has the value it had when the call was entered.
C2_RejectedSentenceLeavesRecord ==
  (gps = "unlock" /\ ~nmea.sentenceUsed /\ nmea.l \notin CorruptLines) =>
    \A f \in GPSFields \ {"LastValidNMEAMessageTime", "LastValidNMEAMessage"} :
      mySituation[f] = entry.sit[f]

\* C3: every step of a call of processNMEALine on a line that fails checksum
\* validation leaves mySituation and Satellites as they are, and the call
\* returns false.
C3_ChecksumFailureChangesNothing ==
  [][(nmea.l \in CorruptLines /\ NMEAStep) =>
       /\ mySituation' = mySituation
       /\ Satellites' = Satellites
       /\ gps' \in {"validate", "unlock", "scan"}
       /\ ~nmea'.sentenceUsed]_vars

\* C3: a corrupt line is about to be returned from after a valid line was recorded
C3_Witness ==
  /\ gps = "unlock"
  /\ nmea.l \in CorruptLines
  /\ mySituation.LastValidNMEAMessage # ""
  /\ Project(mySituation, GPSFields) = entry.sit
  /\ Satellites = entry.sats

\* C4: the validation step of a line with a valid checksum sets
\* LastValidNMEAMessageTime to the clock and LastValidNMEAMessage to the line
\* and goes on to the dispatch; no later step of the call, accepting or
\* rejecting, changes the two, and nothing else ever changes them; so
\* isGPSConnected holds from the validation until the clock is 5 s past the
\* last valid line.
C4_ValidLineIsRecordedBeforeDispatch ==
  [][/\ (gps = "validate" /\ gps' # gps /\ nmea.l \notin CorruptLines) =>
          /\ gps' = "dispatch"
          /\ mySituation'.LastValidNMEAMessageTime = stratuxClock
          /\ mySituation'.LastValidNMEAMessage = nmea.l
          /\ isGPSConnectedAt(mySituation', stratuxClock')
     /\ ~(gps = "validate" /\ gps' # gps /\ nmea.l \notin CorruptLines) =>
          /\ mySituation'.LastValidNMEAMessageTime = mySituation.LastValidNMEAMessageTime
          /\ mySituation'.LastValidNMEAMessage = mySituation.LastValidNMEAMessage
     /\ isGPSConnectedAt(mySituation', stratuxClock') <=>
          stratuxClock' - mySituation'.LastValidNMEAMessageTime < 5]_vars

\* C4: a valid line was rejected after the clock had advanced, and the GPS
\* counts as connected
C4_Witness ==
  /\ gps = "unlock"
  /\ ~nmea.sentenceUsed
  /\ nmea.l \notin CorruptLines
  /\ mySituation.LastValidNMEAMessage = nmea.l
  /\ mySituation.LastValidNMEAMessageTime > 0
  /\ isGPSConnected

\* C5: when isGPSValid returns true Quality is above 0, and when it returns
\* false Quality and Satellites are 0.
C5_InvalidMeansZeroed ==
  validity.pc = "return" =>
    IF validity.isValid THEN mySituation.Quality > 0
    ELSE mySituation.Quality = 0 /\ mySituation.Satellites = 0

\* C6: a step that changes a field of the GPS sub-record is a step of a task
\* that holds the GPS mutex.
C6_GPSWritesHoldMutex ==
  [][Changed # {} =>
       \/ NMEAStep /\ mu_GPS = "gps"
       \/ validity' # validity /\ mu_GPS = "validity"]_vars

\* C7: the commit of a sentence leaves the fields the two AHRS loops write as
\* they are.
C7_CommitLeavesAttitude ==
  [][(gps = "commit" /\ gps' # gps) =>
       \A f \in LoopFields : mySituation'[f] = mySituation[f]]_vars

\* C8, as the specification states it: no task holds two mutexes.
C8_NoTaskHoldsTwo == \A t \in Tasks : Cardinality(Held(t)) <= 1

\* C8, amended: the attitude mutex is never held together with another mutex,
\* and the satellite mutex is held only by the serial reader while it holds
\* the GPS mutex.
C8_OnlyParserNestsMutexes ==
  /\ \A t \in Tasks : "mu_Attitude" \in Held(t) => Held(t) = {"mu_Attitude"}
  /\ satelliteMutex # "" => satelliteMutex = "gps" /\ mu_GPS = "gps"

\* C8: the three mutexes are held at once, two of them by the serial reader
C8_Witness ==
  /\ Held("gps") = {"mu_GPS", "satelliteMutex"}
  /\ gps = "satupdate"
  /\ mu_Attitude # ""

\* C9: an attitude loop that reads the IMU or sends the frame does not hold
\* the attitude mutex.
C9_NoSuspensionUnderAttitudeMutex ==
  [][\A g \in Gens :
       (att[g].pc \in {"read", "send"} /\ att'[g].pc # att[g].pc) =>
         mu_Attitude # AttTask(g)]_vars

\* C10: a step that changes a field the two AHRS loops write is a step of one
\* of the loops, taken while that loop holds the attitude mutex.
C10_AttitudeWritesHoldMutex ==
  [][(\E f \in LoopFields : mySituation'[f] # mySituation[f]) =>
       \E g \in Gens :
         \/ att'[g] # att[g] /\ mu_Attitude = AttTask(g)
         \/ env'[g] # env[g] /\ mu_Attitude = "env" \o Itoa(g)]_vars

\* updateConstellation has just returned
Tracked == gps = "constellation" /\ gps' = "tracked"

\* C11: right after updateConstellation no record of the map was last tracked
\* more than 10 s ago, and every record of the map it was run on that
\* was tracked 10 s ago or less is still there.
C11_StaleRecordsAreRemoved ==
  [][Tracked =>
       /\ \A id \in DOMAIN Satellites' :
            stratuxClock' - Satellites'[id].TimeLastTracked <= 10
       /\ \A id \in DOMAIN Satellites :
            stratuxClock - Satellites[id].TimeLastTracked <= 10
              => id \in DOMAIN Satellites']_vars

\* a record exactly 10 s old was kept while one 11 s old was removed
C11_Witness ==
  /\ gps = "tracked"
  /\ "G5" \in DOMAIN Satellites
  /\ stratuxClock - Satellites["G5"].TimeLastTracked = 10
  /\ "R1" \in DOMAIN entry.sats
  /\ stratuxClock - entry.sats["R1"].TimeLastTracked = 11
  /\ "R1" \notin DOMAIN Satellites

\* C12: right after updateConstellation, Satellites is the number of records
\* that are in solution and were so 5 s ago or less, and no record is in
\* solution with an older TimeLastSolution.
C12_SatellitesCountsSolution ==
  [][Tracked =>
       /\ mySituation'.Satellites =
            Cardinality({id \in DOMAIN Satellites' :
                           /\ Satellites'[id].InSolution
                           /\ stratuxClock' - Satellites'[id].TimeLastSolution <= 5})
       /\ \A id \in DOMAIN Satellites' :
            Satellites'[id].InSolution
              => stratuxClock' - Satellites'[id].TimeLastSolution <= 5]_vars

\* the record id is in the map and was last tracked more than 10 s ago
Stale(id) ==
  id \in DOMAIN Satellites /\ stratuxClock - Satellites[id].TimeLastTracked > 10

\* the record id is in solution and was last so more than 5 s ago
StaleSolution(id) ==
  /\ id \in DOMAIN Satellites
  /\ Satellites[id].InSolution
  /\ stratuxClock - Satellites[id].TimeLastSolution > 5

\* C13: a record last tracked more than 10 s ago is eventually out of the map,
\* and a record last in solution more than 5 s ago is eventually not in
\* solution, whether or not any sentence arrives.
C13_SatellitesExpire ==
  /\ Stale("G4") ~> "G4" \notin DOMAIN Satellites
  /\ StaleSolution("G4") ~> ~("G4" \in DOMAIN Satellites /\ Satellites["G4"].InSolution)

\* C14: every record with a positive Signal was last seen no earlier than one
\* tick before it was last tracked, whatever signal strength a PUBX,03, GSA or
\* GSV sentence reports.
C14_SeenWhenSignal ==
  \A id \in DOMAIN Satellites :
      Satellites[id].Signal > 0 =>
          Satellites[id].TimeLastSeen >= Satellites[id].TimeLastTracked - 1

C16_PositionInRange ==
  /\ mySituation.Lat \in -90000 .. 90000
  /\ mySituation.Lng \in -180000 .. 180000

\* C17: in every state, the initial one included, NACp is the class
\* calculateNACp gives to the current Accuracy.
C17_NACpFollowsAccuracy ==
  mySituation.NACp = calculateNACp(mySituation.Accuracy)

\* C18: for a command with no "$" and no "*" in it, validateNMEAChecksum
\* accepts what makeNMEACmd returns and gives back exactly the command.
C18_RoundTrip ==
  (codec.op = "makeNMEACmd" /\ codec.back # <<>>) =>
      codec.back = <<codec.args[1], TRUE>>

\* a command with a checksum below 16 went round
C18_Witness ==
  /\ codec.op = "makeNMEACmd"
  /\ codec.args = <<"-,">>
  /\ codec.ret = <<"$-,*01\r\n">>
  /\ codec.back = <<"-,", TRUE>>

\* f[lo] + ... + f[hi]
RECURSIVE Sum(_, _, _)
Sum(f, lo, hi) == IF lo > hi THEN 0 ELSE Sum(f, lo, hi - 1) + f[hi]

\* the sum of the sums Sum(f, lo, j) for j from lo to hi
RECURSIVE SumOfSums(_, _, _)
SumOfSums(f, lo, hi) ==
  IF lo > hi THEN 0 ELSE SumOfSums(f, lo, hi - 1) + Sum(f, lo, hi)

\* C19: the frame makeUBXCFG builds is 0xB5, 0x62, class, id, the low and the
\* high byte of the length, the message, and the two bytes of the Fletcher-8
\* checksum of everything from the class byte to the end of the message:
\* ck_a is the sum of those bytes and ck_b the sum of the running sums,
\* both modulo 256.
C19_UBXFrame ==
  (codec.op = "makeUBXCFG" /\ codec.ret # <<>>) =>
      \E f \in {codec.ret[1]}, n \in {Len(codec.args[4])} :
          /\ Len(f) = n + 8
          /\ SubSeq(f, 1, 6) = <<181, 98, codec.args[1], codec.args[2],
                                 codec.args[3] % 256, codec.args[3] \div 256>>
          /\ SubSeq(f, 7, n + 6) = codec.args[4]
          /\ f[n + 7] = Sum(f, 3, n + 6) % 256
          /\ f[n + 8] = SumOfSums(f, 3, n + 6) % 256

\* a frame was built whose sums pass 255, for a length that needs two bytes
C19_Witness ==
  /\ codec.op = "makeUBXCFG"
  /\ codec.args = <<6, 62, 256, <<255, 128, 255>>>>
  /\ codec.ret # <<>>
  /\ codec.ret[1][5] = 0
  /\ codec.ret[1][6] = 1

\* the signal strength that block i of the PUBX,03 or GSV sentence x reports
SignalText(x, i) ==
  IF Kind(x) = "PUBX03" THEN F(x, 7 + 6 * i) ELSE F(x, 7 + 4 * i)

\* the key under which block i of the sentence x is stored
StoredId(x, i) ==
  IF Kind(x) = "PUBX03" THEN SatIdPUBX03(Atoi(SvText(x, i)).v).str
  ELSE SatIdNMEA(Atoi(SvText(x, i)).v).str

\* the protected block stores a record for which the sentence reports a
\* signal strength of 128 or more
StoresStrong ==
  /\ gps = "satupdate"
  /\ gps' = "satloop"
  /\ Kind(nmea.x) \in {"PUBX03", "GSV"}
  /\ Atoi(SignalText(nmea.x, nmea.i)).ok
  /\ Atoi(SignalText(nmea.x, nmea.i)).v >= 128

\* C20: a PUBX,03 or GSV block that reports a signal strength of 128 or more
\* is stored with Signal = 127.
C20_StrongSignalStoredAs127 ==
  [][StoresStrong => Satellites'[StoredId(nmea.x, nmea.i)].Signal = 127]_vars

\* the protected block of a satellite handler stores a record
StoresRecord == gps = "satupdate" /\ gps' = "satloop"

\* the key of the family table for the satellite number n
FamilyKey(n) ==
  IF n \in 1 .. 32 THEN "G" \o Itoa(n)
  ELSE IF n \in 33 .. 54 THEN "S" \o Itoa(n + 87)
  ELSE IF n \in 120 .. 161 THEN "S" \o Itoa(n)
  ELSE IF n \in 65 .. 96 THEN "R" \o Itoa(n - 64)
  ELSE "U" \o Itoa(n)

\* C21: whichever of the three handlers stores a record for the satellite
\* number n, it stores it under the key of the family table.
C21_KeyFollowsFamilyTable ==
  [][StoresRecord =>
       /\ StoredId(nmea.x, nmea.i) \in DOMAIN Satellites'
       /\ StoredId(nmea.x, nmea.i) = FamilyKey(Atoi(SvText(nmea.x, nmea.i)).v)]_vars

\* processNMEALine returns true from the satellite loop of a PUBX,03 or GSV
\* sentence
LoopAccepts(kind) ==
  /\ gps = "satloop"
  /\ Kind(nmea.x) = kind
  /\ gps' = "unlock"
  /\ nmea'.sentenceUsed

\* C22: when a PUBX,03 sentence is accepted, SatellitesTracked is the count
\* in its field 2.
C22_TrackedIsReportedCount ==
  [][LoopAccepts("PUBX03") =>
       mySituation'.SatellitesTracked = Atoi(F(nmea.x, 2)).v]_vars

\* the GSA handler commits its scratch copy
CommitsGSA == gps = "commit" /\ gps' = "unlock" /\ Kind(nmea.x) = "GSA"

\* the numbers a GSA sentence x lists in its fields 3 to 14
Listed(x) == {Atoi(F(x, k)).v : k \in {j \in 3 .. 14 : Atoi(F(x, j)).ok}}

\* how many of the fields 3 to 14 of x hold a number
ListedCount(x) == Cardinality({j \in 3 .. 14 : Atoi(F(x, j)).ok})

\* C23: an accepted GSA sentence that lists k <= 12 satellites, with at most
\* 13 tracked, sets Satellites to k, and to k + 1 when the quality is 2 and
\* no listed satellite is an SBAS one.
C23_SatellitesFromGSA ==
  [][(CommitsGSA /\ ListedCount(nmea.x) <= 12 /\ mySituation.SatellitesTracked <= 13) =>
       mySituation'.Satellites =
         ListedCount(nmea.x)
           + (IF /\ mySituation.Quality = 2
                 /\ \A n \in Listed(nmea.x) : n \notin (33 .. 54) \cup (120 .. 161)
              THEN 1 ELSE 0)]_vars

\* processNMEALine hands the fields of a valid line to a handler
Dispatches == gps = "dispatch" /\ gps' # "dispatch"

\* the time and date of the PUBX,04 or RMC sentence x as a timestamp
TimeSync(x) ==
  IF Kind(x) = "PUBX04"
  THEN IF TimeOfDay(F(x, 2), 7).ok
       THEN ParseGPSTime(F(x, 3), TimeOfDay(F(x, 2), 7)) ELSE [ok |-> FALSE]
  ELSE IF TimeOfDay(F(x, 1), 7).ok
       THEN ParseGPSTime(F(x, 9), TimeOfDay(F(x, 1), 7)) ELSE [ok |-> FALSE]

\* x is a PUBX,04 or RMC sentence with a time and a date that parse
CarriesTime(x) == Kind(x) \in {"PUBX04", "RMC"} /\ Len(x) >= 10 /\ TimeSync(x).ok

\* the handler of x gets as far as the time: the GPS week of a PUBX,04 is
\* accepted, the status of an RMC is "A"
ReachesTime(x) ==
  IF Kind(x) = "PUBX04"
  THEN Atoi(F(x, 5)).ok /\ Atoi(F(x, 5)).v >= MinGPSWeek /\ Atoi(F(x, 5)).v < MaxGPSWeek
  ELSE Len(x) >= 11 /\ F(x, 2) = "A"

\* the date command is run once, with the timestamp t, if t is more than 3 s
\* from the host clock, and not run if it is not
DateRule(t) ==
  IF hostClock - t > 3 \/ t - hostClock > 3
  THEN dateCalls' = Append(dateCalls, t)
  ELSE dateCalls' = dateCalls

\* C24 as stated: for every PUBX,04 or RMC sentence with a time and a date that
\* parse, the date command is run exactly once with the timestamp when it is
\* more than 3 s from the host clock and not at all otherwise, and whether or
\* not the command succeeds the reader goes on.
C24_DateRunOncePerSentence ==
  [][(Dispatches /\ CarriesTime(nmea.x)) =>
       DateRule(TimeSync(nmea.x).t) /\ gps' \in {"commit", "unlock"}]_vars

\* C24, for the sentences whose handler gets as far as the time: the same, and
\* a PUBX,04 sentence is accepted whether or not the command succeeds.
C24_DateRunOncePerHandledSentence ==
  [][(Dispatches /\ CarriesTime(nmea.x) /\ ReachesTime(nmea.x)) =>
       /\ DateRule(TimeSync(nmea.x).t)
       /\ gps' \in {"commit", "unlock"}
       /\ Kind(nmea.x) = "PUBX04" => nmea'.sentenceUsed]_vars

\* a PUBX,04 sentence was accepted after the date command had run once for
\* it and failed
C24_Witness ==
  /\ gps = "unlock"
  /\ nmea.l = Framed(PUBX04Clock)
  /\ nmea.sentenceUsed
  /\ Len(dateCalls) = 1
  /\ hostClock # dateCalls[1]


\* no device node exists, or a call of serial.OpenPort that initGPSSerial makes
\* fails
OpenFails(nodes, opens) ==
  \/ FirstNode(nodes, 1) = ""
  \/ ~opens[1]
  \/ ~opens[2]
  \/ FirstNode(nodes, 1) = "/dev/prolific0" /\ ~opens[3]

\* C25: whenever an attempt to open the serial port inside initGPSSerial fails
\* (the initial open, the SiRF IV re-open or the final re-open) or no candidate
\* device exists, initGPSSerial returns false without a write to an unopened
\* port, GPS_connected stays false, no serial reader is spawned and the
\* supervisor is left to call the opener again on a later pass.
C25_FailedOpenIsRetried ==
  [][\A nodes \in Hosts : \A opens \in OpenOutcomes :
       (PollGPS /\ OpenFails(nodes, opens) /\ Supervise(nodes, opens)) =>
         /\ initGPSSerial(nodes, opens).unopened = 0
         /\ ~initGPSSerial(nodes, opens).ret
         /\ ~globalStatus'.GPS_connected
         /\ gps' = gps
         /\ process' = "running"
         /\ PollGPS']_vars


\* C26: after an I2C read failure, an IMU read error in the attitude loop or a
\* barometer read error in the environmental loop, RY835AI_connected becomes
\* false (and the loops of the generation then exit and the supervisor
\* initialises the AHRS again): a loop whose reads keep failing sees
\* RY835AI_connected false again and again.
C26_ReadFailureDisconnects ==
  \A g \in Gens :
    /\ []<><<AttReadError(g)>>_vars => []<>(~globalStatus.RY835AI_connected)
    /\ []<><<EnvReadError(g)>>_vars => []<>(~globalStatus.RY835AI_connected)


\* C27: when the serial reader exits it leaves GPS_connected false and
\* readyToInitGPS true, and if GPS stays enabled and the device can be opened,
\* the supervisor in the end opens the device again and spawns a new reader.
\* (A pass of the supervisor whose open fails changes nothing, so the weak
\* fairness of pollRY835AI is the condition that the device can be opened.)
C27_ReaderExitLeadsToReopen ==
  /\ [][GExit => ~globalStatus'.GPS_connected /\ readyToInitGPS']_vars
  /\ (gps = "exit" /\ globalSettings.GPS_Enabled) ~> (gps = "start")

\* a reader has scanned lines and returned, and the supervisor has opened the
\* device again and spawned the next reader
C27_Witness ==
  /\ gps = "start"
  /\ scanned > 0
  /\ globalStatus.GPS_connected
  /\ serialPort = "open"


\* the protected block of the GSV handler stores a record of the SBAS family
StoresSBASFromGSV ==
  /\ StoresRecord
  /\ Kind(nmea.x) = "GSV"
  /\ StoredId(nmea.x, nmea.i) \in DOMAIN Satellites'
  /\ Satellites'[StoredId(nmea.x, nmea.i)].Type = SAT_TYPE_SBAS

\* C28: a record of the SBAS family updated by a GSV sentence is in the
\* solution afterwards when the quality is 2 and the stored signal is greater
\* than 16, and is not in the solution in every other case.
C28_SBASInSolutionFollowsSignal ==
  [][StoresSBASFromGSV =>
       Satellites'[StoredId(nmea.x, nmea.i)].InSolution =
         (mySituation.Quality = 2 /\ Satellites'[StoredId(nmea.x, nmea.i)].Signal > 16)]_vars


\* a handler that works on a scratch copy commits it
Commits(kind) == gps = "commit" /\ gps' = "unlock" /\ Kind(nmea.x) = kind

AcceptsSatellites ==
  \/ LoopAccepts("PUBX03") /\ SatCount(nmea.x) > 0
  \/ LoopAccepts("GSV") /\ SatCount(nmea.x) > 0
  \/ CommitsGSA /\ ListedCount(nmea.x) > 0

\* C30: immediately after processNMEALine accepts a PUBX,03, GSA or GSV
\* sentence that mentions at least one satellite, SatellitesTracked is the
\* number of records in the satellite map and SatellitesSeen the number of
\* those records with Signal > 0.
C30_CountersMatchMapOnAccept ==
  [][AcceptsSatellites =>
       /\ mySituation'.SatellitesTracked = Cardinality(DOMAIN Satellites')
       /\ mySituation'.SatellitesSeen =
            Cardinality({id \in DOMAIN Satellites' : Satellites'[id].Signal > 0})]_vars


\* C31: right after updateConstellation, SatellitesTracked is the number of
\* records it kept and SatellitesSeen the number of kept records with
\* Signal > 0, however many records the map holds.
C31_CountersAreExact ==
  [][Tracked =>
       /\ mySituation'.SatellitesTracked = Cardinality(DOMAIN Satellites')
       /\ mySituation'.SatellitesSeen =
            Cardinality({id \in DOMAIN Satellites' : Satellites'[id].Signal > 0})]_vars


\* a serial reader exists: it was spawned and has not left its read loop and
\* signalled its exit
ReaderLives == gps # "idle"

\* C32: at most one serial reader is inside its read loop, and the supervisor
\* never calls the opener between spawning a reader and that reader's exit,
\* however GPS_Enabled is switched: while a reader lives the supervisor's test
\* for calling the opener fails, so no pass spawns a reader beside it.
C32_OneReader ==
  /\ [](ReaderLives => ~PollGPS)
  /\ [][(gps' = "start" /\ pollRY835AI) => ~ReaderLives /\ PollGPS]_vars

\* a reader is inside its read loop after GPS_Enabled was switched off
C32_Witness ==
  /\ gps = "scan"
  /\ scanned > 0
  /\ ~globalSettings.GPS_Enabled
  /\ globalStatus.GPS_connected
  /\ readyToInitGPS = FALSE


\* the attitude loops and the environmental loops that are running: spawned
\* and not yet past their loop
AttRunning == {g \in DOMAIN att : att[g].pc \notin {"idle", "exit"}}
EnvRunning == {g \in DOMAIN env : env[g].pc \notin {"idle", "exit"}}

\* C33: at most one attitude loop and at most one environmental loop are
\* running, and a loop that exits never clears RY835AI_connected while loops
\* of another initAHRS are running, however AHRS_Enabled is switched, the
\* barometer fails and the supervisor initialises the AHRS again.
C33_OneLoopOfEachKind ==
  /\ [](Cardinality(AttRunning) <= 1 /\ Cardinality(EnvRunning) <= 1)
  /\ [][\A g \in Respawns :
          (AttExit(g) \/ EnvExit(g)) /\ globalStatus.RY835AI_connected
            => (AttRunning \cup EnvRunning) \subseteq {g}]_vars


\* a pass of the supervisor opens the GPS device
Opens == PollGPS /\ pollRY835AI /\ globalStatus'.GPS_connected

\* C34: the port a reader used is closed when the reader exits, and the
\* supervisor never opens the GPS device again while the port of the previous
\* reader is still open: the close comes before the signal to initialise
\* again can be acted on.
C34_ClosedBeforeReopen ==
  [][Opens => closing = 0 /\ serialPort # "open"]_vars


\* the task that holds the mutex the task t is waiting for, "" when t is not
\* waiting or the mutex is free
WaitsFor(t) ==
  IF t = "gps"
  THEN IF gps = "lock" THEN mu_GPS
       ELSE IF gps = "satlock" THEN satelliteMutex ELSE ""
  ELSE IF t = "downstream"
  THEN IF downstream.pc = "idle" THEN mu_GPS ELSE ""
  ELSE IF \E g \in Gens : t = AttTask(g) /\ att[g].pc = "lock" THEN mu_Attitude
  ELSE ""

\* from t, n tasks in a row each wait for the next
RECURSIVE WaitChain(_, _)
WaitChain(t, n) ==
  IF n = 0 THEN TRUE
  ELSE IF WaitsFor(t) = "" THEN FALSE
  ELSE WaitChain(WaitsFor(t), n - 1)

\* the tasks wait for one another in a circle
Deadlock == \E t \in Tasks : WaitChain(t, Cardinality(Tasks))

\* C35: the tasks never deadlock.  The satellite mutex is taken only by a
\* task that holds the GPS mutex and the GPS mutex never by one that holds the
\* satellite mutex; the attitude mutex is never held with another mutex; and
\* processNMEALine and attitudeReaderSender hold no mutex once they have
\* returned or gone round their loop, whichever way the sentence was
\* rejected.
C35_NoDeadlock ==
  /\ [](~Deadlock)
  /\ [](satelliteMutex # "" => mu_GPS = satelliteMutex)
  /\ [][\A t \in Tasks : (mu_GPS' = t /\ mu_GPS # t) => satelliteMutex # t]_vars
  /\ [](\A t \in Tasks : "mu_Attitude" \in Held(t) => Held(t) = {"mu_Attitude"})
  /\ [](gps \in {"idle", "start", "scan", "exit", "lock"} => Held("gps") = {})
  /\ [](\A g \in Gens :
          att[g].pc \in {"idle", "loop", "read", "lock", "exit"} => Held(AttTask(g)) = {})

\* processNMEALine has rejected a GSV sentence inside its satellite loop,
\* after a pass that took and released the satellite mutex, and has returned
\* while the attitude loop holds the attitude mutex and a downstream reader
\* the GPS mutex
C35_Witness ==
  /\ gps = "scan"
  /\ nmea.l = Framed(GSVBadSecond)
  /\ ~nmea.sentenceUsed
  /\ "G4" \in DOMAIN Satellites
  /\ Held("gps") = {}
  /\ mu_GPS = "downstream"
  /\ mu_Attitude = AttTask(1)


\* the sentence types that report a ground track
GroundTrackKinds == {"PUBX00", "VTG", "RMC"}

\* the ground speed the sentence x reports, in thousandths of a knot: field 11
\* of a PUBX,00 in km/h, field 5 of a VTG and field 7 of an RMC in knots
SentenceKnots(x) ==
  IF Kind(x) = "PUBX00" THEN ToKnots(ParseFloat(F(x, 11)).v)
  ELSE IF Kind(x) = "VTG" THEN ParseFloat(F(x, 5)).v
  ELSE ParseFloat(F(x, 7)).v

\* a sentence that reports a ground track is accepted
CommitsGroundTrack == \E kind \in GroundTrackKinds : Commits(kind)

\* C36: TrueCourse changes only when an accepted PUBX,00, VTG or RMC sentence
\* reports a ground speed strictly above 3 knots; an accepted sentence of
\* these types with 3 knots or less leaves TrueCourse as it is and still sets
\* GroundSpeed to its speed and LastGroundTrackTime to the clock at the time
\* it was parsed.
C36_CourseOnlyAboveThreeKnots ==
  [][/\ mySituation'.TrueCourse # mySituation.TrueCourse =>
          CommitsGroundTrack /\ SentenceKnots(nmea.x) > 3000
     /\ (CommitsGroundTrack /\ SentenceKnots(nmea.x) <= 3000) =>
          /\ mySituation'.TrueCourse = mySituation.TrueCourse
          /\ mySituation'.GroundSpeed = TruncUint16(SentenceKnots(nmea.x))
          /\ mySituation'.LastGroundTrackTime = nmea.tmpSituation.LastGroundTrackTime
     /\ (Dispatches /\ gps' = "commit" /\ Kind(nmea.x) \in GroundTrackKinds) =>
          nmea'.tmpSituation.LastGroundTrackTime = stratuxClock]_vars

\* a VTG sentence of exactly 3 knots was accepted after the clock had gone
\* on: the course of an earlier, faster sentence is still there, the speed
\* and the time of the ground track are those of the slow one
C36_Witness ==
  /\ gps = "unlock"
  /\ nmea.sentenceUsed
  /\ nmea.l = Framed(VTGThree)
  /\ mySituation.TrueCourse = 54700
  /\ mySituation.GroundSpeed = 3
  /\ mySituation.LastGroundTrackTime > 0


\* the OS date command is invoked in this step
RunsDate == Len(dateCalls') > Len(dateCalls)

\* the sentence being handled is accepted: it is a PUBX,04 sentence that has
\* returned true, or one whose scratch copy goes on to be committed
Accepted == nmea'.sentenceUsed \/ gps' = "commit"

\* C37: processNMEALine never invokes the OS date command for a sentence that
\* it rejects; the system clock is set only by sentences that are accepted.
C37_DateOnlyWhenAccepted == [][RunsDate => Accepted]_vars


\* the sentence types that report a fix quality
QualityKinds == {"GGA", "PUBX00"}

\* the fix quality the sentence x carries: field 6 of a GGA, the navigation
\* status in field 8 of a PUBX,00
SentenceQuality(x) ==
  IF Kind(x) = "GGA" THEN Uint8(Atoi(F(x, 6)).v) ELSE NavStatQuality(F(x, 8))

\* Quality is 0, as isGPSValid leaves it when it returns false, and is not 0
\* after the step
RestoresQuality == mySituation.Quality = 0 /\ mySituation'.Quality # 0

\* C38: once isGPSValid has set Quality to 0 it stays 0 until a GGA or PUBX,00
\* sentence that carries a non-zero quality is accepted; no sentence of
\* another type brings a non-zero Quality back, whether or not it is being
\* handled while isGPSValid runs.
C38_QualityStaysZero ==
  [][RestoresQuality =>
       \E kind \in QualityKinds : Commits(kind) /\ SentenceQuality(nmea.x) # 0]_vars

====
